---- MODULE Spec2Model ----
(***************************************************************************)
(* A model of pipen-annotate: the registry of section classes, the merge   *)
(* of annotation trees (annotate.py::_update_annotation and the            *)
(* update_parsed methods of sections.py) and the cached annotate() call.   *)
(*                                                                         *)
(* Python values are records carrying their Python type in `type`.  A      *)
(* str is the sequence of its characters; every dict-like object (Diot,    *)
(* OrderedDiot and their subclasses) is its sequence of items, in          *)
(* insertion order, plus the metadata the Mixin keeps in __diot__.         *)
(***************************************************************************)
EXTENDS Naturals, Sequences, FiniteSets, TLC

VARIABLES
    SECTION_TYPES,  \* annotate.py:24  the registry: section name -> section class
    heap,           \* the objects that have an identity: trees and parsed sections
    marked,         \* class -> its marks: annotate_annotated (an address, 0: None), annotate_inherit
    inp,            \* the arguments of the call under study
    out,            \* what the calls returned
    step            \* the position of the driver, or the number of calls made

vars == <<SECTION_TYPES, heap, marked, inp, out, step>>

----------------------------------------------------------------------------
(* Strings *)

s_empty == <<>>
s_Summary == <<"S","u","m","m","a","r","y">>
s_Input == <<"I","n","p","u","t">>
s_Output == <<"O","u","t","p","u","t">>
s_Envs == <<"E","n","v","s">>
s_Args == <<"A","r","g","s">>
s_Returns == <<"R","e","t","u","r","n","s">>
s_Raises == <<"R","a","i","s","e","s">>
s_Warns == <<"W","a","r","n","s">>
s_SeeAlso == <<"S","e","e"," ","A","l","s","o">>
s_Notes == <<"N","o","t","e","s">>
s_References == <<"R","e","f","e","r","e","n","c","e","s">>
s_Examples == <<"E","x","a","m","p","l","e","s">>
s_Todo == <<"T","o","d","o">>
s_Text == <<"T","e","x","t">>
s_Items == <<"I","t","e","m","s">>
s_short == <<"s","h","o","r","t">>
s_long == <<"l","o","n","g">>
s_lines == <<"l","i","n","e","s">>

----------------------------------------------------------------------------
(* Python objects *)

None == [type |-> "NoneType"]
Str(s) == [type |-> "str", s |-> s]
PyTrue == [type |-> "bool", b |-> TRUE]
Int(n) == [type |-> "int", n |-> n]
List(t, elems) == [type |-> t, elems |-> elems]
Dict(t, items, meta) == [type |-> t, items |-> items, meta |-> meta]
Item(k, v) == [k |-> k, v |-> v]

NoMeta == [none |-> TRUE]

DictTypes ==
    {"dict", "OrderedDiot", "SummaryParsed", "TextParsed", "ItemTerms", "ItemAttrs"}
ListTypes == {"list", "TextLines"}
IsDict(x) == x.type \in DictTypes
IsList(x) == x.type \in ListTypes
IsStr(x) == x.type = "str"

\* dict operations, on the sequence of items
Has(items, k) == \E i \in 1..Len(items) : items[i].k = k
Idx(items, k) == CHOOSE i \in 1..Len(items) : items[i].k = k
Get(items, k) == items[Idx(items, k)].v
Put(items, k, v) ==
    IF Has(items, k) THEN [items EXCEPT ![Idx(items, k)].v = v]
    ELSE Append(items, Item(k, v))
Keys(items) == [i \in 1..Len(items) |-> items[i].k]
KeySet(items) == {items[i].k : i \in 1..Len(items)}

RECURSIVE Update(_, _)
\* dict.update: existing keys keep their place, new keys are appended
Update(items, more) ==
    IF more = <<>> THEN items
    ELSE Update(Put(items, more[1].k, more[1].v), Tail(more))

\* bool(x)
Truthy(x) ==
    CASE x.type = "str" -> x.s # <<>>
      [] x.type = "bool" -> x.b
      [] x.type = "int" -> x.n # 0
      [] x.type = "NoneType" -> FALSE
      [] x.type \in ListTypes -> x.elems # <<>>
      [] x.type \in DictTypes -> x.items # <<>>
      [] x.type = "ItemTerm" -> TRUE
      [] OTHER -> TRUE

\* copy.deepcopy: values carry no identity below the section level, so the
\* copy is the equal value; the identity of the copy is given by its caller.
deepcopy(x) == x

ItemAttrs(items, origin) == Dict("ItemAttrs", items, [origin |-> origin])
ItemTerms(items, name, level) ==
    Dict("ItemTerms", items, [name |-> name, level |-> level])
ItemTerm(name, attrs, terms, help, raw_help, prefix) ==
    [type |-> "ItemTerm", name |-> name, attrs |-> attrs, terms |-> terms,
     help |-> help, raw_help |-> raw_help, prefix |-> prefix]
SummaryParsed(short, long) ==
    Dict("SummaryParsed", <<Item(s_short, Str(short)), Item(s_long, Str(long))>>,
         NoMeta)
TextParsed(lines, name) ==
    Dict("TextParsed", <<Item(s_lines, List("TextLines", lines))>>,
         [name |-> name])

\* str(value) of an attribute value
PyStr(v) ==
    CASE v.type = "str" -> v.s
      [] v.type = "int" -> <<<<"0">>, <<"1">>, <<"2">>, <<"3">>, <<"4">>, <<"5">>,
                             <<"6">>, <<"7">>, <<"8">>, <<"9">>>>[v.n + 1]
      [] v.type = "bool" -> IF v.b THEN <<"T","r","u","e">>
                            ELSE <<"F","a","l","s","e">>
      [] OTHER -> <<"N","o","n","e">>

RECURSIVE Join(_, _)
\* sep.join(parts)
Join(sep, parts) ==
    IF parts = <<>> THEN <<>>
    ELSE IF Len(parts) = 1 THEN parts[1]
    ELSE parts[1] \o sep \o Join(sep, Tail(parts))

\* ItemAttrs.__str__, sections.py:58-66
ItemAttrs_str(attrs) ==
    Join(<<";">>,
         [i \in 1..Len(attrs.meta.origin) |->
            LET key == attrs.meta.origin[i]
                value == Get(attrs.items, key)
            IN  IF value = PyTrue THEN key ELSE key \o <<"=">> \o PyStr(value)])

----------------------------------------------------------------------------
(* The outcome of a call: the exception it raised ("" when it returned),   *)
(* the value it returned, and the value its first argument's object holds  *)
(* after the call (a callee that works on a copy leaves it as it was).     *)

(* `same` tells which object was returned: a "new" one, the "other" argument *)
(* itself, or the first argument itself ("arg").                           *)
Ok(ret, arg) == [exc |-> "", ret |-> ret, arg |-> arg, same |-> "new"]
OkOther(other, arg) == [exc |-> "", ret |-> other, arg |-> arg, same |-> "other"]
Raise(e, arg) == [exc |-> e, ret |-> None, arg |-> arg, same |-> "new"]

\* ExtendOrigin without the `if org not in origin` test
ExtendOrigin_always(origin, more) == origin \o more

\* `org not in origin` / origin.append(org), sections.py:416-418
RECURSIVE ExtendOrigin(_, _)
ExtendOrigin(origin, more) ==
    IF more = <<>> THEN origin
    ELSE ExtendOrigin(
            IF \E i \in 1..Len(origin) : origin[i] = more[1]
            THEN origin ELSE Append(origin, more[1]),
            Tail(more))

\* sections.py:414-418: base[key].attrs.update(value.attrs) and the merge of
\* the declared names
MergeAttrs(battrs, vattrs) ==
    ItemAttrs(Update(battrs.items, vattrs.items),
              ExtendOrigin(battrs.meta.origin, vattrs.meta.origin))

\* MergeHelp without the `if value.help` test
MergeHelp_unconditional(bterm, value) ==
    [bterm EXCEPT !.help = value.help, !.raw_help = value.raw_help]

\* sections.py:408-413: the help and raw_help of the derived term, when it has help
MergeHelp(bterm, value) ==
    IF value.help # <<>>
    THEN [bterm EXCEPT !.help = value.help, !.raw_help = value.raw_help]
    ELSE bterm

\* `key not in base` for the object base was copied from, sections.py:405
Contains(base, key) ==
    CASE IsDict(base) -> Has(base.items, key)
      [] IsList(base) -> \E i \in 1..Len(base.elems) : base.elems[i] = key
      [] OTHER -> FALSE

RECURSIVE _update_terms(_, _)
RECURSIVE UpdateTermsLoop(_, _)
\* The loop of _update_terms over other.items(), sections.py:404-419. acc is
\* the local `base` (the copy); items are the items of `other` still to visit.
UpdateTermsLoop(acc, items) ==
    IF items = <<>> THEN Ok(acc, acc)
    ELSE
      LET key == items[1].k
          value == items[1].v
      IN  IF ~Contains(acc, key)
          THEN IF IsDict(acc)
               THEN UpdateTermsLoop([acc EXCEPT !.items = Put(@, key, value)],
                                    Tail(items))
               ELSE Raise("TypeError", acc)
          ELSE
            IF value.type # "ItemTerm" THEN Raise("AttributeError", acc)
            ELSE IF ~IsDict(acc) THEN Raise("TypeError", acc)
            ELSE IF Get(acc.items, key).type # "ItemTerm"
                 THEN Raise("AttributeError", acc)
            ELSE
              LET t1 == MergeHelp(Get(acc.items, key), value)
                  t2 == [t1 EXCEPT !.attrs = MergeAttrs(t1.attrs, value.attrs)]
                  \* line 419: the call's return value is not used; what
                  \* base[key].terms holds afterwards is what the callee left in it
                  sub == _update_terms(t2.terms, value.terms)
                  t3 == [t2 EXCEPT !.terms = sub.arg]
              IN  IF sub.exc # "" THEN Raise(sub.exc, acc)
                  ELSE UpdateTermsLoop([acc EXCEPT !.items = Put(@, key, t3)],
                                       Tail(items))

\* _update_terms without the deepcopy of line 403: the loop works on base itself
_update_terms_inplace(base, other) ==
    IF ~IsDict(other) THEN Raise("AttributeError", base)
    ELSE [UpdateTermsLoop(base, other.items) EXCEPT !.same = "arg"]

\* sections.py:401-421
_update_terms(base, other) ==
    IF ~IsDict(other) THEN Raise("AttributeError", base)
    ELSE LET r == UpdateTermsLoop(deepcopy(base), other.items)
         IN  [exc |-> r.exc, ret |-> r.ret, arg |-> base, same |-> "new"]

\* Section.update_parsed keeping base when other is empty
Section_update_parsed_nonempty(base, other) ==
    IF IsStr(other) THEN OkOther(other, base)
    ELSE IF IsList(other)
    THEN IF IsList(base)
         THEN Ok(List("list", base.elems \o other.elems), base)
         ELSE Raise("TypeError", base)
    ELSE IF ~IsDict(base) THEN Raise("AttributeError", base)
    ELSE IF ~IsDict(other) THEN Raise("TypeError", base)
    ELSE IF \A i \in 1..Len(other.items) : ~Truthy(other.items[i].v)
    THEN Ok(deepcopy(base), base)
    ELSE Ok([deepcopy(base) EXCEPT !.items = Update(@, other.items)], base)

\* Section.update_parsed, sections.py:438-452
Section_update_parsed(base, other) ==
    IF IsStr(other) THEN OkOther(other, base)
    ELSE IF IsList(other)
    THEN IF IsList(base)
         THEN Ok(List("list", base.elems \o other.elems), base)
         ELSE Raise("TypeError", base)
    ELSE IF ~IsDict(base) THEN Raise("AttributeError", base)
    ELSE IF ~IsDict(other) THEN Raise("TypeError", base)
    ELSE Ok([deepcopy(base) EXCEPT !.items = Update(@, other.items)], base)

\* other.<name> on a parsed section: Diot resolves attributes to items
HasAttr(x, name) == IsDict(x) /\ x.type # "dict" /\ Has(x.items, name)

\* SectionSummary.update_parsed without the tests on other.short and other.long
SectionSummary_update_parsed_always(base, other) ==
    Ok([deepcopy(base) EXCEPT !.items = Update(@, other.items)], base)

\* SectionSummary.update_parsed, sections.py:475-487
SectionSummary_update_parsed(base, other) ==
    IF ~HasAttr(other, s_short) THEN Raise("AttributeError", base)
    ELSE
      LET b0 == deepcopy(base)
          settable == IsDict(b0) /\ b0.type # "dict"
          oshort == Get(other.items, s_short)
          b1 == IF Truthy(oshort) /\ settable
                THEN [b0 EXCEPT !.items = Put(@, s_short, oshort)] ELSE b0
      IN  IF Truthy(oshort) /\ ~settable THEN Raise("AttributeError", base)
          ELSE IF ~HasAttr(other, s_long) THEN Raise("AttributeError", base)
          ELSE
            LET olong == Get(other.items, s_long)
            IN  IF Truthy(olong) /\ ~settable THEN Raise("AttributeError", base)
                ELSE Ok(IF Truthy(olong)
                        THEN [b1 EXCEPT !.items = Put(@, s_long, olong)]
                        ELSE b1, base)

\* SectionItems.update_parsed, sections.py:500-507 (inherited by SectionInput,
\* SectionOutput, SectionEnvs and SectionProcGroupArgs)
SectionItems_update_parsed(base, other) == _update_terms(base, other)

----------------------------------------------------------------------------
(* The registry as the module is imported, annotate.py:24-40 *)

SECTION_TYPES_0 ==
    << Item(s_Summary, "SectionSummary"), Item(s_Input, "SectionInput"),
       Item(s_Output, "SectionOutput"), Item(s_Envs, "SectionEnvs"),
       Item(s_Args, "SectionItems"), Item(s_Returns, "SectionItems"),
       Item(s_Raises, "SectionItems"), Item(s_Warns, "SectionItems"),
       Item(s_SeeAlso, "SectionText"), Item(s_Notes, "SectionText"),
       Item(s_References, "SectionText"), Item(s_Examples, "SectionText"),
       Item(s_Todo, "SectionText"), Item(s_Text, "SectionText"),
       Item(s_Items, "SectionItems") >>

\* The update_parsed a section class resolves to (method resolution order):
\* SectionSummary and SectionItems define their own, the subclasses of
\* SectionItems inherit it, every other class has Section's.
update_parsed(section_class, base, other) ==
    CASE section_class = "SectionSummary" ->
            SectionSummary_update_parsed(base, other)
      [] section_class \in {"SectionItems", "SectionInput", "SectionOutput",
                            "SectionEnvs", "SectionProcGroupArgs"} ->
            SectionItems_update_parsed(base, other)
      [] OTHER -> Section_update_parsed(base, other)

----------------------------------------------------------------------------
(* Objects with an identity. heap[a] is the object at address a: a tree    *)
(* (an OrderedDiot whose values are the addresses of its sections) or a    *)
(* parsed section. Address 0 is None.                                      *)

Tree(items) == Dict("OrderedDiot", items, NoMeta)

RECURSIVE AllocSections(_, _, _)
\* The sections of a freshly parsed tree, then the tree: [h, ret]
AllocSections(h, items, done) ==
    IF items = <<>> THEN [h |-> Append(h, Tree(done)), ret |-> Len(h) + 1]
    ELSE AllocSections(Append(h, items[1].v), Tail(items),
                       Append(done, Item(items[1].k, Len(h) + 1)))

AllocTree(h, treev) == AllocSections(h, treev, <<>>)

\* The content of the tree at address a: its sections by value
Deref(h, a) ==
    IF a = 0 THEN None
    ELSE Tree([i \in 1..Len(h[a].items) |->
                 Item(h[a].items[i].k, h[h[a].items[i].v])])

\* SECTION_TYPES.get(key), annotate.py:120
RegistryGet(registry, key) == IF Has(registry, key) THEN Get(registry, key) ELSE "None"

RECURSIVE UpdateAnnotationLoop(_, _, _, _)
\* The loop of _update_annotation over other.items(), annotate.py:119-124.
\* t is the address of the local `base`; items are those of `other` to visit.
UpdateAnnotationLoop(registry, h, t, items) ==
    IF items = <<>> THEN [exc |-> "", h |-> h, ret |-> t]
    ELSE
      LET key == items[1].k
          value == items[1].v
          section_class == RegistryGet(registry, key)
      IN  IF ~Has(h[t].items, key) \/ section_class = "None"
          THEN UpdateAnnotationLoop(registry,
                    [h EXCEPT ![t].items = Put(@, key, value)], t, Tail(items))
          ELSE
            LET b == Get(h[t].items, key)
                r == update_parsed(section_class, h[b], h[value])
                h1 == [h EXCEPT ![b] = r.arg]
                h2 == Append(h1, r.ret)
            IN  IF r.exc # "" THEN [exc |-> r.exc, h |-> h1, ret |-> 0]
                ELSE IF r.same = "other"
                THEN UpdateAnnotationLoop(registry,
                        [h1 EXCEPT ![t].items = Put(@, key, value)], t, Tail(items))
                ELSE IF r.same = "arg"
                THEN UpdateAnnotationLoop(registry, h1, t, Tail(items))
                ELSE UpdateAnnotationLoop(registry,
                        [h2 EXCEPT ![t].items = Put(@, key, Len(h2))], t, Tail(items))

\* _update_annotation starting from an empty mapping instead of a copy of base
_update_annotation_empty(registry, h, base, other) ==
    IF base = 0 THEN [exc |-> "", h |-> h, ret |-> other]
    ELSE LET h0 == Append(h, Tree(<<>>))
         IN  UpdateAnnotationLoop(registry, h0, Len(h0), h[other].items)

\* _update_annotation without line 117: the loop assigns into base itself
_update_annotation_nocopy(registry, h, base, other) ==
    IF base = 0 THEN [exc |-> "", h |-> h, ret |-> other]
    ELSE UpdateAnnotationLoop(registry, h, base, h[other].items)

\* _update_annotation, annotate.py:109-126. base and other are addresses.
_update_annotation(registry, h, base, other) ==
    IF base = 0 THEN [exc |-> "", h |-> h, ret |-> other]
    ELSE LET h0 == Append(h, Tree(h[base].items))   \* other.__class__(base)
         IN  UpdateAnnotationLoop(registry, h0, Len(h0), h[other].items)

----------------------------------------------------------------------------
(* Bounded families of parsed item sections, as _parse_terms and the       *)
(* schema-linked parse methods build them.                                 *)

MaxDepth == 1       \* levels of sub-terms below a top-level term

s_arg1 == <<"a","r","g","1">>
s_arg2 == <<"a","r","g","2">>
s_sub1 == <<"s","u","b","1">>
s_help1 == <<"h","e","l","p","1">>
s_help11 == <<"h","e","l","p","1","1">>
s_type == <<"t","y","p","e">>
s_int == <<"i","n","t">>
s_str == <<"s","t","r">>
s_choices == <<"c","h","o","i","c","e","s">>
s_required == <<"r","e","q","u","i","r","e","d">>
s_default == <<"d","e","f","a","u","l","t">>
s_bullet == <<"-"," ">>

HelpOpts(side) == {<<>>, IF side = "base" THEN s_help1 ELSE s_help11}

AttrOpts(side, level) ==
    IF side = "base"
    THEN {ItemAttrs(<<>>, <<>>),
          ItemAttrs(<<Item(s_type, Str(s_int))>>, <<s_type>>)}
         \cup (IF level = 0
               THEN {ItemAttrs(<<Item(s_type, Str(s_int)), Item(s_required, PyTrue),
                                 Item(s_default, Int(1))>>,
                               <<s_type, s_required>>)}
               ELSE {})
    ELSE {ItemAttrs(<<>>, <<>>),
          ItemAttrs(<<Item(s_choices, PyTrue)>>, <<s_choices>>)}
         \cup (IF level = 0
               THEN {ItemAttrs(<<Item(s_choices, PyTrue), Item(s_type, Str(s_str))>>,
                               <<s_choices, s_type>>)}
               ELSE {})

RECURSIVE GenTerms(_, _)
\* The sub-terms a term at `level` - 1 can have: none, or sub1
GenTerms(side, level) ==
    LET name == IF level = 0 THEN Str(s_Envs) ELSE None
        prefix == IF level = 0 THEN None ELSE Str(s_bullet)
        kids == IF level < MaxDepth
                THEN GenTerms(side, level + 1)
                ELSE {ItemTerms(<<>>, None, level + 1)}
        Term(n, full) ==
            {ItemTerm(n, a, k, h, IF h = <<>> THEN <<>> ELSE <<h>>, prefix) :
                a \in (IF full THEN AttrOpts(side, level)
                       ELSE {ItemAttrs(<<>>, <<>>)}),
                k \in (IF full THEN kids ELSE {ItemTerms(<<>>, None, level + 1)}),
                h \in (IF full THEN HelpOpts(side) ELSE HelpOpts(side) \ {<<>>})}
        first == IF level = 0 THEN s_arg1 ELSE s_sub1
        one == {<<>>} \cup {<<Item(first, t)>> : t \in Term(first, TRUE)}
        two == IF level = 0
               THEN {<<>>} \cup {<<Item(s_arg2, t)>> : t \in Term(s_arg2, FALSE)}
               ELSE {<<>>}
    IN  {ItemTerms(a \o b, name, level) : a \in one, b \in two}

----------------------------------------------------------------------------
(* SpecTerms: SectionItems.update_parsed on every pair of the family *)

InitTerms ==
    /\ SECTION_TYPES = SECTION_TYPES_0
    /\ heap = <<>>
    /\ marked = <<>>
    /\ inp \in [base : GenTerms("base", 0), other : GenTerms("other", 0)]
    /\ out = None
    /\ step = "init"

MergeTerms ==
    /\ step = "init"
    /\ out' = update_parsed("SectionEnvs", inp.base, inp.other)
    /\ step' = "done"
    /\ UNCHANGED <<SECTION_TYPES, heap, marked, inp>>

NextTerms == MergeTerms

SpecTerms == InitTerms /\ [][NextTerms]_vars

----------------------------------------------------------------------------
(* Claims on the merge of item sections (SpecTerms) *)

Range(seq) == {seq[i] : i \in 1..Len(seq)}
Both(B, D) == KeySet(B) \cap KeySet(D)

\* The rule of the merged help and attributes of a term present on both sides
TermRule(b, d, m) ==
    /\ m.help = (IF d.help # <<>> THEN d.help ELSE b.help)
    /\ KeySet(m.attrs.items) = KeySet(b.attrs.items) \cup KeySet(d.attrs.items)
    /\ \A a \in KeySet(m.attrs.items) :
          Get(m.attrs.items, a) = (IF Has(d.attrs.items, a)
                                   THEN Get(d.attrs.items, a)
                                   ELSE Get(b.attrs.items, a))

\* C1 (as claimed): for every term present in both trees, the children of the
\* merged term are the deep merge of the two terms' children: every child of
\* the derived term is under the merged term, and a child on both sides has
\* the derived help when non-empty and the union of the attributes with
\* derived precedence.
C1_ChildrenDeepMerged ==
    (step = "done" /\ out.exc = "") =>
        \A k \in Both(inp.base.items, inp.other.items) :
            LET b == Get(inp.base.items, k).terms.items
                d == Get(inp.other.items, k).terms.items
                m == Get(out.ret.items, k).terms.items
            IN  \A c \in KeySet(d) :
                    /\ Has(m, c)
                    /\ Has(b, c) => TermRule(Get(b, c), Get(d, c), Get(m, c))

\* C2: one level of the item merge. A term only in base is unchanged, a term
\* only in derived is inserted, a term in both has the derived help when
\* non-empty (else the base help), the base attributes overridden by the
\* derived ones, and as declared names the base's followed by the derived's
\* new ones; type:int merged with choices renders as type=int;choices.
C2_MergeOneLevel ==
    step = "done" =>
        /\ out.exc = ""
        /\ LET B == inp.base.items
               D == inp.other.items
               M == out.ret.items
           IN  /\ KeySet(M) = KeySet(B) \cup KeySet(D)
               /\ \A k \in KeySet(B) \ KeySet(D) : Get(M, k) = Get(B, k)
               /\ \A k \in KeySet(D) \ KeySet(B) : Get(M, k) = Get(D, k)
               /\ \A k \in Both(B, D) :
                    LET b == Get(B, k)
                        d == Get(D, k)
                        m == Get(M, k)
                        bo == b.attrs.meta.origin
                        do == d.attrs.meta.origin
                        new(x) == x \notin Range(bo)
                    IN  /\ TermRule(b, d, m)
                        /\ m.name = k
                        /\ m.attrs.meta.origin = bo \o SelectSeq(do, new)
                        /\ (bo = <<s_type>> /\ do = <<s_choices>>) =>
                              /\ Get(m.attrs.items, s_type) = Str(s_int)
                              /\ Get(m.attrs.items, s_choices) = PyTrue
                              /\ ItemAttrs_str(m.attrs) =
                                   s_type \o <<"=">> \o s_int \o <<";">> \o s_choices

\* C2's case: arg1 on both sides (type:int against choices, with a derived
\* help) and arg2 only in base, merged.
C2_Witness ==
    /\ step = "done"
    /\ out.exc = ""
    /\ Has(inp.base.items, s_arg2) /\ ~Has(inp.other.items, s_arg2)
    /\ Has(inp.base.items, s_arg1) /\ Has(inp.other.items, s_arg1)
    /\ Get(inp.base.items, s_arg1).attrs.meta.origin = <<s_type>>
    /\ Get(inp.other.items, s_arg1).attrs.meta.origin = <<s_choices>>
    /\ Get(inp.other.items, s_arg1).help = s_help11
    /\ Get(inp.base.items, s_arg1).help = s_help1

----------------------------------------------------------------------------
(* SpecMerge: _update_annotation on bounded families of annotation trees.  *)
(* The registry is the one of tests/test_annotate.py::test_inherit: the    *)
(* defaults plus a user class whose parse() returns a list of lines.       *)

s_List == <<"L","i","s","t">>
s_Vars == <<"V","a","r","s">>
s_arg3 == <<"a","r","g","3">>
s_Short == <<"S","h","o","r","t">>
s_Long == <<"L","o","n","g">>
s_abc == <<"a","b","c">>
s_def == <<"d","e","f">>

s_Dict == <<"D","i","c","t">>
s_a == <<"a">>
s_b == <<"b">>
s_c == <<"c">>

SECTION_TYPES_inherit ==
    SECTION_TYPES_0 \o <<Item(s_List, "SectionList"), Item(s_Dict, "SectionDict")>>

\* A top-level term without sub-terms
Leaf(name, help, attrs) ==
    ItemTerm(name, attrs, ItemTerms(<<>>, None, 1), help,
             IF help = <<>> THEN <<>> ELSE <<help>>, None)

GenSummary(side) ==
    {SummaryParsed(sh, lg) :
        sh \in {<<>>, IF side = "base" THEN s_Summary ELSE s_Short},
        lg \in {<<>>, IF side = "base" THEN s_abc ELSE s_Long}}

GenEnvs(side) ==
    IF side = "base"
    THEN {ItemTerms(<<Item(s_arg1, Leaf(s_arg1, s_help1,
                        ItemAttrs(<<Item(s_type, Str(s_int)), Item(s_default, Int(1))>>,
                                  <<s_type>>))),
                      Item(s_arg2, Leaf(s_arg2, s_help1,
                        ItemAttrs(<<Item(s_default, Int(2))>>, <<>>)))>>,
                    Str(s_Envs), 0),
          ItemTerms(<<>>, Str(s_Envs), 0)}
    ELSE {ItemTerms(<<Item(s_arg1, Leaf(s_arg1, s_help11,
                        ItemAttrs(<<Item(s_choices, PyTrue)>>, <<s_choices>>))),
                      Item(s_arg3, Leaf(s_arg3, <<>>,
                        ItemAttrs(<<Item(s_default, Int(3))>>, <<>>)))>>,
                    Str(s_Envs), 0),
          ItemTerms(<<Item(s_arg1, Leaf(s_arg1, <<>>, ItemAttrs(<<>>, <<>>)))>>,
                    Str(s_Envs), 0)}

GenText(side, name) ==
    {TextParsed(<<>>, Str(name)),
     TextParsed(<<IF side = "base" THEN s_abc ELSE s_def>>, Str(name))}

\* The results of the two user classes of test_inherit: a list of lines,
\* and the dict of a JSON object
GenUser(side) ==
    IF side = "base"
    THEN {<<Item(s_List, List("list", <<s_a, s_b>>))>>,
          <<Item(s_Dict, Dict("dict", <<Item(s_a, Int(1)), Item(s_b, Int(2))>>, NoMeta))>>}
    ELSE {<<Item(s_List, List("list", <<s_c>>))>>,
          <<Item(s_Dict, Dict("dict", <<Item(s_c, Int(3)), Item(s_b, Int(4))>>, NoMeta))>>}

OptSection(name, values) == {<<>>} \cup {<<Item(name, v)>> : v \in values}

\* The trees of a side: the empty tree of an undocumented plain class, or a
\* Summary followed by any of Envs, a text section (Notes, or Vars, which is
\* not registered) and a section of a user class
GenTree(side) ==
    {<<>>} \cup
    {<<Item(s_Summary, sm)>> \o e \o n \o u :
        sm \in GenSummary(side),
        e \in OptSection(s_Envs, GenEnvs(side)),
        n \in OptSection(s_Notes, GenText(side, s_Notes))
               \cup {<<Item(s_Vars, TextParsed(<<IF side = "base" THEN s_abc ELSE s_def>>,
                                              Str(s_Vars)))>>},
        u \in {<<>>} \cup GenUser(side)}

\* The derived trees of a second merge against the same base
SecondTrees ==
    {<<Item(s_Summary, SummaryParsed(s_Long, <<>>)),
       Item(s_Envs, ItemTerms(<<Item(s_arg2, Leaf(s_arg2, s_help11,
                                ItemAttrs(<<Item(s_required, PyTrue)>>, <<s_required>>)))>>,
                              Str(s_Envs), 0)),
       Item(s_Notes, TextParsed(<<s_def, s_def>>, Str(s_Notes))),
       Item(s_List, List("list", <<s_a>>))>>,
     <<Item(s_Summary, SummaryParsed(<<>>, s_Short))>>}

\* What a merge returned: the exception, the address and the content then
Returned(r) == [exc |-> r.exc, ret |-> r.ret, val |-> Deref(r.h, r.ret)]

InitMerge ==
    /\ SECTION_TYPES = SECTION_TYPES_inherit
    /\ marked = <<>>
    /\ \E b \in {<<t>> : t \in GenTree("base")} \cup {<<>>}, d \in GenTree("other") :
          \* b = <<>>: base is None
          LET h1 == IF b = <<>> THEN [h |-> <<>>, ret |-> 0] ELSE AllocTree(<<>>, b[1])
              h2 == AllocTree(h1.h, d)
          IN  /\ heap = h2.h
              /\ inp = [base |-> h1.ret, other |-> h2.ret,
                        basev |-> Deref(h2.h, h1.ret),
                        otherv |-> Deref(h2.h, h2.ret)]
    /\ out = <<>>
    /\ step = "init"

\* _update_annotation(base, other)
Merge ==
    /\ step = "init"
    /\ LET r == _update_annotation(SECTION_TYPES, heap, inp.base, inp.other)
       IN  /\ heap' = r.h
           /\ out' = <<Returned(r)>>
    /\ step' = "merged"
    /\ UNCHANGED <<SECTION_TYPES, marked, inp>>

\* a second _update_annotation(base, other2) against the same base
MergeAgain ==
    /\ step = "merged"
    /\ \E d \in SecondTrees :
          LET a == AllocTree(heap, d)
              r == _update_annotation(SECTION_TYPES, a.h, inp.base, a.ret)
          IN  /\ heap' = r.h
              /\ out' = Append(out, Returned(r))
    /\ step' = "again"
    /\ UNCHANGED <<SECTION_TYPES, marked, inp>>

\* _update_annotation(base, base)
MergeSelf ==
    /\ step = "init"
    /\ inp.base # 0
    /\ LET r == _update_annotation(SECTION_TYPES, heap, inp.base, inp.base)
       IN  /\ heap' = r.h
           /\ out' = <<Returned(r)>>
    /\ step' = "self"
    /\ UNCHANGED <<SECTION_TYPES, marked, inp>>

NextMerge == Merge \/ MergeAgain \/ MergeSelf

SpecMerge == InitMerge /\ [][NextMerge]_vars

----------------------------------------------------------------------------
(* Claims on _update_annotation (SpecMerge) *)

Sections(treev) == treev.items
MergedOk == step = "merged" /\ inp.base # 0 /\ out[1].exc = ""

\* C3: no merge mutates its base. After every merge the base tree (its
\* sections, terms, help, attributes, declared names, children) has the
\* content it had before, and a second merge against the same base leaves
\* the result of the first as it was returned.
C3_BaseUnchanged ==
    /\ step # "init" => Deref(heap, inp.base) = inp.basev
    /\ step = "again" =>
          /\ Deref(heap, out[1].ret) = out[1].val
          /\ out[1].exc = "" /\ out[2].exc = ""

\* C3's case: two merges against a base with Summary, Envs, Notes and List,
\* with different results
C3_Witness ==
    /\ step = "again"
    /\ inp.base # 0
    /\ {s_Summary, s_Envs, s_Notes, s_List} \subseteq KeySet(Sections(inp.basev))
    /\ Get(Sections(inp.basev), s_Envs).items # <<>>
    /\ Has(Sections(inp.otherv), s_Envs)
    /\ out[1].val # out[2].val
    /\ out[1].val # inp.basev

\* C4 (as claimed): _update_annotation(T, T) is content-equal to T for every
\* tree T, whatever the kinds of its sections' results.
C4_Idempotent ==
    step = "self" => (out[1].exc = "" /\ out[1].val = inp.basev)

\* C4 (amended): _update_annotation(T, T) has T's sections in T's order;
\* each equals T's section, except a list-valued section of a registered
\* class, which is the list followed by itself.
C4_IdempotentButLists ==
    step = "self" =>
        /\ out[1].exc = ""
        /\ Keys(Sections(out[1].val)) = Keys(Sections(inp.basev))
        /\ \A k \in KeySet(Sections(inp.basev)) :
              LET t == Get(Sections(inp.basev), k)
                  m == Get(Sections(out[1].val), k)
              IN  IF IsList(t) /\ Has(SECTION_TYPES, k)
                  THEN m = List("list", t.elems \o t.elems)
                  ELSE m = t

\* C4's case: a tree with a summary record, a term mapping with declared
\* attributes, a text record and a non-empty list, merged with itself
C4_Witness ==
    /\ step = "self"
    /\ {s_Summary, s_Envs, s_Notes, s_List} \subseteq KeySet(Sections(inp.basev))
    /\ Get(Sections(inp.basev), s_Envs).items # <<>>
    /\ Get(Sections(out[1].val), s_List) = List("list", <<s_a, s_b, s_a, s_b>>)

TextBoth ==
    {k \in Both(Sections(inp.basev), Sections(inp.otherv)) :
        /\ Get(Sections(inp.basev), k).type = "TextParsed"
        /\ Get(Sections(inp.otherv), k).type = "TextParsed"}

\* C5 (as claimed): a text section present in both trees is merged to the
\* derived section exactly when the derived section has at least one line.
C5_TextDerivedIffNonEmpty ==
    MergedOk =>
        \A k \in TextBoth :
            (Get(Sections(out[1].val), k) = Get(Sections(inp.otherv), k))
            <=> Truthy(Get(Get(Sections(inp.otherv), k).items, s_lines))

\* C5 (amended): a text section present in both trees is merged to the
\* derived section, whether or not the derived section has lines; it is
\* replaced as a whole.
C5_TextReplaced ==
    /\ step = "merged" => out[1].exc = ""
    /\ MergedOk =>
        \A k \in TextBoth :
            Get(Sections(out[1].val), k) = Get(Sections(inp.otherv), k)

\* C5's case: Notes with lines in base and without lines in derived
C5_Witness ==
    /\ MergedOk
    /\ s_Notes \in TextBoth
    /\ Get(Sections(inp.basev), s_Notes) = TextParsed(<<s_abc>>, Str(s_Notes))
    /\ Get(Sections(inp.otherv), s_Notes) = TextParsed(<<>>, Str(s_Notes))
    /\ Get(Sections(out[1].val), s_Notes) = TextParsed(<<>>, Str(s_Notes))

\* C6: the merged summary has the derived short when it is non-empty and
\* the base short otherwise, and likewise, independently, for long.
C6_SummaryMerge ==
    (MergedOk /\ Has(Sections(inp.basev), s_Summary)
              /\ Has(Sections(inp.otherv), s_Summary)) =>
        LET b == Get(Sections(inp.basev), s_Summary).items
            d == Get(Sections(inp.otherv), s_Summary).items
            m == Get(Sections(out[1].val), s_Summary).items
            pick(f) == IF Get(d, f).s # <<>> THEN Get(d, f) ELSE Get(b, f)
        IN  /\ Keys(m) = <<s_short, s_long>>
            /\ Get(m, s_short) = pick(s_short)
            /\ Get(m, s_long) = pick(s_long)

\* C6's case: the derived summary has a long and no short, the base both
C6_Witness ==
    /\ MergedOk
    /\ Has(Sections(inp.basev), s_Summary) /\ Has(Sections(inp.otherv), s_Summary)
    /\ Get(Sections(inp.basev), s_Summary) = SummaryParsed(s_Summary, s_abc)
    /\ Get(Sections(inp.otherv), s_Summary) = SummaryParsed(<<>>, s_Long)
    /\ Get(Sections(out[1].val), s_Summary) = SummaryParsed(s_Summary, s_Long)

\* The merge rule of the kind of each section name of the family
KindRule(k, b, d) ==
    CASE k = s_Summary -> SectionSummary_update_parsed(b, d).ret
      [] k = s_Envs -> SectionItems_update_parsed(b, d).ret
      [] k \in {s_Notes, s_Vars} -> d
      [] k = s_List -> List("list", b.elems \o d.elems)
      [] k = s_Dict -> Dict("dict", Update(b.items, d.items), NoMeta)

\* C7: with a base that is not None, a section only in the derived tree is
\* the derived section itself, a section in both is the result of its
\* kind's merge rule on (base section, derived section), a section only in
\* the base tree is the base section itself, and the result has exactly the
\* section names of both trees.
C7_SectionLevelMerge ==
    MergedOk =>
        LET B == heap[inp.base].items
            D == heap[inp.other].items
            M == heap[out[1].ret].items
        IN  /\ KeySet(M) = KeySet(B) \cup KeySet(D)
            /\ Len(M) = Cardinality(KeySet(M))
            /\ \A k \in KeySet(D) \ KeySet(B) : Get(M, k) = Get(D, k)
            /\ \A k \in KeySet(B) \ KeySet(D) : Get(M, k) = Get(B, k)
            /\ \A k \in Both(B, D) :
                  heap[Get(M, k)] = KindRule(k, heap[Get(B, k)], heap[Get(D, k)])

\* C7's case: Envs only in base, a user section only in derived, Summary in both
C7_Witness ==
    /\ MergedOk
    /\ Has(Sections(inp.basev), s_Envs) /\ ~Has(Sections(inp.otherv), s_Envs)
    /\ Has(Sections(inp.otherv), s_Dict) /\ ~Has(Sections(inp.basev), s_Dict)
    /\ Has(Sections(inp.basev), s_Notes) /\ Has(Sections(inp.otherv), s_Notes)
    /\ Get(Sections(inp.basev), s_Envs).items # <<>>
    /\ Get(Sections(out[1].val), s_Summary) # Get(Sections(inp.basev), s_Summary)
    /\ Get(Sections(out[1].val), s_Summary) # Get(Sections(inp.otherv), s_Summary)

----------------------------------------------------------------------------
(* str methods, textwrap.dedent and the helpers of utils.py, on sequences  *)
(* of characters                                                           *)

Lower == <<"a","b","c","d","e","f","g","h","i","j","k","l","m",
           "n","o","p","q","r","s","t","u","v","w","x","y","z">>
Upper == <<"A","B","C","D","E","F","G","H","I","J","K","L","M",
           "N","O","P","Q","R","S","T","U","V","W","X","Y","Z">>
Digits == <<"0","1","2","3","4","5","6","7","8","9">>

IsLower(c) == \E i \in 1..Len(Lower) : Lower[i] = c
IsUpper(c) == \E i \in 1..Len(Upper) : Upper[i] = c
IsCased(c) == IsLower(c) \/ IsUpper(c)
IsDigit(c) == \E i \in 1..Len(Digits) : Digits[i] = c
\* \w
IsWordChar(c) == IsCased(c) \/ IsDigit(c) \/ c = "_"
\* \s, str.isspace
IsSpace(c) == c \in {" ", "\t", "\n"}
IsBlankChar(c) == c \in {" ", "\t"}
ToUpper(c) == IF IsLower(c) THEN Upper[CHOOSE i \in 1..Len(Lower) : Lower[i] = c] ELSE c
ToLower(c) == IF IsUpper(c) THEN Lower[CHOOSE i \in 1..Len(Upper) : Upper[i] = c] ELSE c

\* str.title(): a cased character is upper after an uncased one (or at the
\* start) and lower after a cased one
title(s) ==
    [i \in 1..Len(s) |->
        IF i > 1 /\ IsCased(s[i - 1]) THEN ToLower(s[i]) ELSE ToUpper(s[i])]

Min(S) == CHOOSE x \in S : \A y \in S : x <= y
Max(S) == CHOOSE x \in S : \A y \in S : x >= y

\* s[i:] and s[:n] with 1-based i
From(s, i) == SubSeq(s, i, Len(s))
Upto(s, n) == SubSeq(s, 1, n)

\* the number of leading characters of s that satisfy Test
LeadLen(s, Test(_)) ==
    LET stops == {i \in 1..Len(s) : ~Test(s[i])}
    IN  IF stops = {} THEN Len(s) ELSE Min(stops) - 1

\* the number of trailing characters of s that satisfy Test
TrailLen(s, Test(_)) ==
    LET stops == {i \in 1..Len(s) : ~Test(s[i])}
    IN  IF stops = {} THEN Len(s) ELSE Len(s) - Max(stops)

lstrip(s) == From(s, LeadLen(s, IsSpace) + 1)
rstrip(s) == Upto(s, Len(s) - TrailLen(s, IsSpace))
strip(s) == lstrip(rstrip(s))
startswith(s, p) == Len(s) >= Len(p) /\ Upto(s, Len(p)) = p
endswith(s, p) == Len(s) >= Len(p) /\ From(s, Len(s) - Len(p) + 1) = p

\* str.isidentifier (ASCII)
isidentifier(s) ==
    /\ s # <<>>
    /\ IsCased(s[1]) \/ s[1] = "_"
    /\ \A i \in 2..Len(s) : IsWordChar(s[i])

RECURSIVE split(_, _)
\* s.split(c) for a one-character separator
split(s, c) ==
    LET hits == {i \in 1..Len(s) : s[i] = c}
    IN  IF hits = {} THEN <<s>>
        ELSE <<Upto(s, Min(hits) - 1)>> \o split(From(s, Min(hits) + 1), c)

\* s.split(c, 1)
split1(s, c) ==
    LET hits == {i \in 1..Len(s) : s[i] = c}
    IN  IF hits = {} THEN <<s>>
        ELSE <<Upto(s, Min(hits) - 1), From(s, Min(hits) + 1)>>

\* parts without its last element when that is empty
DropLastEmpty(parts) ==
    IF parts[Len(parts)] = <<>> THEN Upto(parts, Len(parts) - 1) ELSE parts

\* s.splitlines(): no empty last line after a final line break
splitlines(s) == DropLastEmpty(split(s, "\n"))

RECURSIVE CommonPrefix(_, _)
CommonPrefix(a, b) ==
    IF a = <<>> \/ b = <<>> \/ a[1] # b[1] THEN <<>>
    ELSE <<a[1]>> \o CommonPrefix(Tail(a), Tail(b))

RECURSIVE Margin(_)
\* the common leading whitespace of a non-empty sequence of indents
Margin(indents) ==
    IF Len(indents) = 1 THEN indents[1]
    ELSE CommonPrefix(indents[1], Margin(Tail(indents)))

\* textwrap.dedent: the lines with those of blanks only made empty
NormLines(raw) ==
    [i \in 1..Len(raw) |->
        IF LeadLen(raw[i], IsBlankChar) = Len(raw[i]) THEN <<>> ELSE raw[i]]

\* textwrap.dedent: the leading whitespace of each line
Indents(inked) ==
    [i \in 1..Len(inked) |-> Upto(inked[i], LeadLen(inked[i], IsBlankChar))]

\* textwrap.dedent: the margin, from the lines that are not empty
MarginOf(inked) == IF inked = <<>> THEN <<>> ELSE Margin(Indents(inked))

\* textwrap.dedent: the margin removed from the lines that are not empty
StripMargin(norm, margin) ==
    Join(<<"\n">>,
         [i \in 1..Len(norm) |->
             IF norm[i] = <<>> THEN <<>> ELSE From(norm[i], Len(margin) + 1)])

DedentLines(norm) ==
    LET full(l) == l # <<>>
    IN  StripMargin(norm, MarginOf(SelectSeq(norm, full)))

\* textwrap.dedent(text): lines of blanks only become empty, and the common
\* leading whitespace of the other lines is removed from them
textwrap_dedent(text) == DedentLines(NormLines(split(text, "\n")))

\* utils.py:14-16
dedent(lines) == splitlines(textwrap_dedent(Join(<<"\n">>, lines)))

\* utils.py:10-11: every space but one at the very start is removed
is_section(s) ==
    LET notspace(c) == c # " "
    IN  isidentifier(IF s = <<>> THEN <<>>
                     ELSE <<s[1]>> \o SelectSeq(Tail(s), notspace))

\* utils.py:43-51
end_of_sentence(line) ==
    line # <<>> /\ line[Len(line)] \in {".", "?", "!", ":"}

RECURSIVE cleanup_loop(_, _)
\* utils.py:56-61
cleanup_loop(lines, acc) ==
    IF lines = <<>> THEN acc
    ELSE LET line == lines[1]
         IN  IF line = <<"\n">> THEN cleanup_loop(Tail(lines), acc)
             ELSE IF line # <<>> \/ acc = <<>> \/ acc[Len(acc)] # <<>>
             THEN cleanup_loop(Tail(lines), Append(acc, line))
             ELSE cleanup_loop(Tail(lines), acc)

\* cleanup_empty_lines without `if out and not out[-1]: out.pop()`
cleanup_empty_lines_no_pop(lines) == cleanup_loop(lines, <<>>)

\* utils.py:54-66
cleanup_empty_lines(lines) ==
    LET o == cleanup_loop(lines, <<>>)
    IN  IF o # <<>> /\ o[Len(o)] = <<>> THEN Upto(o, Len(o) - 1) ELSE o

----------------------------------------------------------------------------
(* Parsing: sections.py. A parse returns [exc, ret, warn]: the exception   *)
(* raised ("" when none), the parsed result, and whether an                *)
(* UnknownAnnotationItemWarning was emitted.                               *)

POk(ret, warn) == [exc |-> "", ret |-> ret, warn |-> warn]
PRaise(e) == [exc |-> e, ret |-> None, warn |-> FALSE]

s_var == <<"v","a","r">>
s_files == <<"f","i","l","e","s">>
s_dirs == <<"d","i","r","s">>
s_itype == <<"i","t","y","p","e">>
s_otype == <<"o","t","y","p","e">>
s_nargs == <<"n","a","r","g","s">>
s_action == <<"a","c","t","i","o","n">>
s_append == <<"a","p","p","e","n","d">>
s_extend == <<"e","x","t","e","n","d">>
s_ns == <<"n","s">>
s_namespace == <<"n","a","m","e","s","p","a","c","e">>
s_code == <<">",">",">">>

\* m.group(...) of a group that did not take part in the match is None
OptStr(s) == IF s = <<>> THEN None ELSE Str(s)

NoMatch == [ok |-> FALSE, name |-> <<>>, attrs |-> None, help |-> None, value |-> None]

\* ITEM_LINE_REGEX with a name of n characters: \s*, then the parenthesised
\* attributes up to the first "):" (lazy), or the colon at once, then the help
\* p is where the rest after the name and the spaces starts
ItemLineFrom(s, n, p) ==
    LET closers == {j \in (p + 2)..(Len(s) - 1) : s[j] = ")" /\ s[j + 1] = ":"}
    IN  IF p <= Len(s) /\ s[p] = "(" /\ closers # {}
        THEN [ok |-> TRUE, name |-> Upto(s, n),
              attrs |-> Str(SubSeq(s, p + 1, Min(closers) - 1)),
              help |-> OptStr(From(s, Min(closers) + 2)), value |-> None]
        ELSE IF p <= Len(s) /\ s[p] = ":"
        THEN [ok |-> TRUE, name |-> Upto(s, n), attrs |-> None,
              help |-> OptStr(From(s, p + 1)), value |-> None]
        ELSE NoMatch

ItemLineAt(s, n) == ItemLineFrom(s, n, n + 1 + LeadLen(From(s, n + 1), IsSpace))

\* the match with the longest of the names in good
LongestItemLine(s, good) == IF good = {} THEN NoMatch ELSE ItemLineAt(s, Max(good))

\* ITEM_LINE_REGEX.match(s), sections.py:19-21: the name is greedy, so the
\* longest name of non-space characters with which the rest matches is taken
ITEM_LINE_REGEX_match(s) ==
    LET nonspace(c) == ~IsSpace(c)
    IN  LongestItemLine(s, {n \in 1..LeadLen(s, nonspace) : ItemLineAt(s, n).ok})

\* ITEM_ATTR_REGEX: the value group of r2, the text after the [:=]
ItemAttrValue(r2) ==
    LET k == LeadLen(r2, IsSpace)
    IN  IF k = Len(r2) THEN From(r2, k) ELSE From(r2, k + 1)

\* ITEM_ATTR_REGEX with a name of n characters; r1 is the rest after the
\* name and the spaces
ItemAttrAt(s, n, r1) ==
    IF n = 0 THEN NoMatch
    ELSE IF n = Len(s) THEN [NoMatch EXCEPT !.ok = TRUE, !.name = s]
    ELSE IF r1 = <<>> \/ r1[1] \notin {":", "="} \/ Tail(r1) = <<>> THEN NoMatch
    ELSE [NoMatch EXCEPT !.ok = TRUE, !.name = Upto(s, n),
                         !.value = Str(ItemAttrValue(Tail(r1)))]

ItemAttrName(s, n) == ItemAttrAt(s, n, lstrip(From(s, n + 1)))

\* ITEM_ATTR_REGEX.match(s), sections.py:22
ITEM_ATTR_REGEX_match(s) ==
    LET namechar(c) == IsWordChar(c) \/ c = "-"
    IN  ItemAttrName(s, LeadLen(s, namechar))

RECURSIVE ParseAttrsLoop(_, _)

\* sections.py:298-309: one attribute, attr_matched its match
ParseAttr(pieces, attrs, attr_matched) ==
    IF ~attr_matched.ok THEN PRaise("MalFormattedAnnotationError")
    ELSE ParseAttrsLoop(Tail(pieces),
            ItemAttrs(Put(attrs.items, attr_matched.name,
                          IF attr_matched.value = None THEN PyTrue
                          ELSE attr_matched.value),
                      Append(attrs.meta.origin, attr_matched.name)))

\* sections.py:295-309: the loop over attrs.split(";")
ParseAttrsLoop(pieces, attrs) ==
    IF pieces = <<>> THEN POk(attrs, FALSE)
    ELSE ParseAttr(pieces, attrs, ITEM_ATTR_REGEX_match(strip(pieces[1])))

\* ItemTerm(name=..., attrs=ItemAttrs(), terms=ItemTerms(), help="")
NewTerm(name, attrs, prefix) ==
    ItemTerm(name, attrs, ItemTerms(<<>>, None, 0), <<>>, <<>>, prefix)

RECURSIVE _parse_terms(_, _, _, _)
RECURSIVE ParseTermsLoop(_, _, _, _)

\* item.terms = sub, sections.py:279, 350, sub the outcome of _parse_terms
SetItemTerms(st, sub) ==
    LET key == st.item.s
        t == [Get(st.terms.items, key) EXCEPT !.terms = sub.ret]
    IN  IF sub.exc # "" THEN [exc |-> sub.exc, st |-> st]
        ELSE [exc |-> "",
              st |-> [st EXCEPT !.terms = [st.terms EXCEPT !.items = Put(@, key, t)]]]

\* sections.py:277-279, 348-350 without the parse of the sub-lines
CloseItem_skipped(st, level) == [exc |-> "", st |-> st]

\* `if item: item.terms = _parse_terms(sublines, "- ", level + 1)`,
\* sections.py:277-279, 348-350
CloseItem(st, level) ==
    IF st.item = None THEN [exc |-> "", st |-> st]
    ELSE SetItemTerms(st, _parse_terms(st.sublines, Str(s_bullet), level + 1, None))

\* sections.py:294-309: the attributes of a matched line
MatchedAttrs(matched) ==
    IF matched.attrs # None
    THEN ParseAttrsLoop(split(matched.attrs.s, ";"), ItemAttrs(<<>>, <<>>))
    ELSE POk(ItemAttrs(<<>>, <<>>), FALSE)

\* sections.py:311-312: the help of a matched line
MatchedHelp(matched) == IF matched.help # None THEN strip(matched.help.s) ELSE <<>>

\* sections.py:280-318: the new item of a matched line; c is the outcome of
\* closing the open item, a of parsing the attributes
StartItem(c, a, help, matched, lines, prefix, level) ==
    IF c.exc # "" THEN c
    ELSE IF a.exc # "" THEN [exc |-> a.exc, st |-> c.st]
    ELSE ParseTermsLoop(
            [terms |-> [c.st.terms EXCEPT !.items =
                          Put(@, matched.name,
                              [NewTerm(matched.name, a.ret, prefix) EXCEPT
                                  !.help = help,
                                  !.raw_help = IF matched.help # None
                                               THEN <<help>> ELSE <<>>])],
             sublines |-> IF c.st.item # None THEN <<>> ELSE c.st.sublines,
             item |-> Str(matched.name),
             just_matched |-> TRUE,
             help_continuing |->
                IF matched.help # None /\ help = <<"|">> THEN TRUE
                ELSE c.st.help_continuing],
            Tail(lines), prefix, level)

\* sections.py:325-340 with the line put before the help
AppendHelp_prepend(item, help_continuing, lstripped_line) ==
    [item EXCEPT !.raw_help = Append(@, lstripped_line),
                 !.help = lstripped_line \o <<" ">> \o @]

\* sections.py:325-340 with the separator always one space
AppendHelp_space(item, help_continuing, lstripped_line) ==
    [item EXCEPT !.raw_help = Append(@, lstripped_line),
                 !.help = (IF help_continuing /\ item.help = <<"|">> THEN <<>>
                           ELSE @ \o <<" ">>) \o lstripped_line]

\* sections.py:325-340: a line that continues the help of item
AppendHelp(item, help_continuing, lstripped_line) ==
    LET literal == help_continuing /\ item.help = <<"|">>
        sep == IF literal THEN <<>>
               ELSE IF \/ help_continuing
                       \/ end_of_sentence(item.help)
                       \/ startswith(lstripped_line, s_code)
                       \/ /\ item.help # <<>>
                          /\ startswith(splitlines(item.help)[Len(splitlines(item.help))],
                                        s_code)
               THEN <<"\n">> ELSE <<" ">>
    IN  [item EXCEPT !.raw_help = Append(@, lstripped_line),
                     !.help = (IF literal THEN <<>> ELSE @) \o sep \o lstripped_line]

\* sections.py:276-346: one line, matched its match with ITEM_LINE_REGEX
ParseLine(st, lines, prefix, level, matched, lstripped_line) ==
    IF matched.ok
    THEN StartItem(CloseItem(st, level), MatchedAttrs(matched), MatchedHelp(matched),
                   matched, lines, prefix, level)
    ELSE IF st.item = None THEN [exc |-> "MalFormattedAnnotationError", st |-> st]
    ELSE IF st.just_matched /\ ~startswith(lstripped_line, s_bullet)
    THEN ParseTermsLoop(
            [st EXCEPT !.terms = [st.terms EXCEPT !.items =
                Put(@, st.item.s,
                    AppendHelp(Get(@, st.item.s), st.help_continuing, lstripped_line))]],
            Tail(lines), prefix, level)
    ELSE IF startswith(lstripped_line, s_bullet)
    THEN ParseTermsLoop([st EXCEPT !.sublines = Append(@, lines[1]),
                                   !.just_matched = FALSE,
                                   !.help_continuing = FALSE],
                        Tail(lines), prefix, level)
    ELSE ParseTermsLoop([st EXCEPT !.sublines = Append(@, lines[1])],
                        Tail(lines), prefix, level)

\* The loop of _parse_terms, sections.py:269-346. st holds the locals: terms,
\* sublines, item (the name of the open term, or None), just_matched and
\* help_continuing.
ParseTermsLoop(st, lines, prefix, level) ==
    IF lines = <<>> THEN [exc |-> "", st |-> st]
    ELSE ParseLine(st, lines, prefix, level,
                   ITEM_LINE_REGEX_match(
                      IF Truthy(prefix) THEN From(lines[1], Len(prefix.s) + 1)
                      ELSE lines[1]),
                   lstrip(lines[1]))

\* sections.py:348-352, c the outcome of closing the last item
ParsedTerms(c) == IF c.exc # "" THEN PRaise(c.exc) ELSE POk(c.st.terms, FALSE)

\* sections.py:348-352, r the outcome of the loop
EndTerms(r, level) ==
    IF r.exc # "" THEN PRaise(r.exc) ELSE ParsedTerms(CloseItem(r.st, level))

\* _parse_terms(lines, prefix, level, name), sections.py:253-352
_parse_terms(lines, prefix, level, name) ==
    EndTerms(ParseTermsLoop([terms |-> ItemTerms(<<>>, name, level),
                             sublines |-> <<>>, item |-> None,
                             just_matched |-> FALSE, help_continuing |-> FALSE],
                            dedent(lines), prefix, level),
             level)

\* an attribute the class does not have
Absent == [type |-> "absent"]

\* attrs.get(key, default)
AttrGet(attrs, key, default) ==
    IF Has(attrs.items, key) THEN Get(attrs.items, key) ELSE default

\* attrs.setdefault(key, value) / `if key not in attrs: attrs[key] = value`
SetDefault(attrs, key, value) ==
    IF Has(attrs.items, key) THEN attrs
    ELSE [attrs EXCEPT !.items = Append(@, Item(key, value))]

RECURSIVE _update_attrs_with_cls(_, _)
RECURSIVE UpdateAttrsLoop(_, _)

\* sections.py:375-381: parsed with a term for key
EnsureTerm(parsed, key) ==
    IF Has(parsed.items, key) THEN parsed
    ELSE [parsed EXCEPT !.items =
            Append(@, Item(key, NewTerm(key, ItemAttrs(<<>>, <<>>), None)))]

\* IsNamespace with every mapping value taken as a namespace
IsNamespace_any_mapping(t, value) ==
    \/ Truthy(AttrGet(t.attrs, s_ns, None))
    \/ Truthy(AttrGet(t.attrs, s_namespace, None))
    \/ AttrGet(t.attrs, s_action, Str(<<>>)) \in {Str(s_ns), Str(s_namespace)}
    \/ value.type = "dict"

\* sections.py:383-388: is the term t a namespace, given its value in envs
IsNamespace(t, value) ==
    \/ Truthy(AttrGet(t.attrs, s_ns, None))
    \/ Truthy(AttrGet(t.attrs, s_namespace, None))
    \/ AttrGet(t.attrs, s_action, Str(<<>>)) \in {Str(s_ns), Str(s_namespace)}
    \/ (value.type = "dict" /\ Truthy(t.terms))

\* sections.py:397-398, sub the outcome of the update of the sub-terms
SetTermDefault(p1, t, key, value, attrs, sub, rest) ==
    IF sub.exc # "" THEN sub
    ELSE UpdateAttrsLoop(
            [p1 EXCEPT !.items =
                Put(@, key, [t EXCEPT !.attrs = SetDefault(attrs, s_default, value),
                                      !.terms = sub.ret])],
            rest)

\* sections.py:383-398: one item of envs, p1 the terms with a term t for key
UpdateAttr(p1, t, key, value, rest) ==
    IF IsNamespace(t, value)
    THEN SetTermDefault(p1, t, key, value, SetDefault(t.attrs, s_ns, PyTrue),
                        _update_attrs_with_cls(t.terms, value), rest)
    ELSE SetTermDefault(p1, t, key, value, t.attrs, POk(t.terms, FALSE), rest)

UpdateEnsured(p1, key, value, rest) == UpdateAttr(p1, Get(p1.items, key), key, value, rest)

\* The loop of _update_attrs_with_cls over envs.items(), sections.py:372-398
UpdateAttrsLoop(parsed, items) ==
    IF items = <<>> THEN POk(parsed, FALSE)
    ELSE UpdateEnsured(EnsureTerm(parsed, items[1].k), items[1].k, items[1].v,
                       Tail(items))

\* _update_attrs_with_cls(parsed, envs), sections.py:365-398: what parsed
\* holds afterwards
_update_attrs_with_cls(parsed, envs) ==
    IF ~Truthy(envs) THEN POk(parsed, FALSE)             \* envs = envs or {}
    ELSE IF envs.type # "dict" THEN PRaise("AttributeError")
    ELSE UpdateAttrsLoop(parsed, envs.items)

\* sections.py:463-473: short and long of the dedented lines
SummaryOf(lines) ==
    LET blanks == {i \in 1..Len(lines) : lines[i] = <<>>}
    IN  SummaryParsed(
            rstrip(Join(<<>>, [i \in 1..(IF blanks = {} THEN Len(lines)
                                         ELSE Min(blanks) - 1) |->
                                 lines[i] \o <<" ">>])),
            IF blanks = {} THEN <<>> ELSE Join(<<"\n">>, From(lines, Min(blanks) + 1)))

\* SectionSummary.parse, sections.py:457-473
SectionSummary_parse(cls, name, _lines) ==
    POk(SummaryOf(IF _lines = <<>> THEN _lines
                  ELSE IF _lines[1] # <<>> /\ IsBlankChar(_lines[1][1])
                  THEN dedent(_lines)
                  ELSE <<_lines[1]>> \o dedent(Tail(_lines))),
        FALSE)

\* SectionText.parse, sections.py:614-619
SectionText_parse(cls, name, _lines) ==
    POk(TextParsed(cleanup_empty_lines(dedent(_lines)), Str(name)), FALSE)

\* SectionItems.parse, sections.py:492-498
SectionItems_parse(cls, name, _lines) == _parse_terms(_lines, None, 0, Str(name))

\* a str schema is split at the commas and each piece stripped
SchemaList(v) ==
    IF v.type = "str"
    THEN LET parts == split(v.s, ",") IN [i \in 1..Len(parts) |-> strip(parts[i])]
    ELSE IF IsList(v) THEN [i \in 1..Len(v.elems) |-> v.elems[i].s]
    ELSE <<>>

RECURSIVE InputLoop(_, _)

\* InputKey but for `parsed[input_key].attrs["itype"] = input_type`: a
\* documented itype stays
InputKey_documented_itype(parsed, input_key, input_type, rest) ==
    InputLoop(
        [parsed EXCEPT !.items =
            Put(@, input_key,
                [(IF Has(@, input_key)
                  THEN Get(@, input_key)
                  ELSE NewTerm(input_key,
                               ItemAttrs(<<Item(s_itype, Str(input_type))>>, <<>>), None))
                 EXCEPT !.attrs.items =
                    Put(Put(@, s_nargs, Str(<<"+">>)), s_action,
                        Str(IF input_type \in {s_files, s_dirs}
                            THEN s_append ELSE s_extend))])],
        rest)

\* sections.py:525-542: one declared key, input_key and input_type its parts
InputKey(parsed, input_key, input_type, rest) ==
    InputLoop(
        [parsed EXCEPT !.items =
            Put(@, input_key,
                [(IF Has(@, input_key)
                  THEN [Get(@, input_key) EXCEPT
                          !.attrs.items = Put(@, s_itype, Str(input_type))]
                  ELSE NewTerm(input_key,
                               ItemAttrs(<<Item(s_itype, Str(input_type))>>, <<>>), None))
                 EXCEPT !.attrs.items =
                    Put(Put(@, s_nargs, Str(<<"+">>)), s_action,
                        Str(IF input_type \in {s_files, s_dirs}
                            THEN s_append ELSE s_extend))])],
        rest)

InputKeyType(parsed, kt, rest) == InputKey(parsed, kt[1], kt[2], rest)

\* The loop of SectionInput.parse over the declared keys, sections.py:522-542
InputLoop(parsed, keys) ==
    IF keys = <<>> THEN parsed
    ELSE InputKeyType(parsed,
            split1(IF \E i \in 1..Len(keys[1]) : keys[1][i] = ":"
                   THEN keys[1] ELSE keys[1] \o <<":">> \o s_var, ":"),
            Tail(keys))

\* sections.py:544-551: the warning when a documented item is not declared
InputParsed(parsed, keys) ==
    POk(parsed, KeySet(parsed.items) \ {split1(keys[i], ":")[1] : i \in 1..Len(keys)} # {})

\* sections.py:514-551, p the outcome of super().parse()
InputOf(cls, p, keys) ==
    IF p.exc # "" THEN p
    ELSE IF cls.input = Absent THEN PRaise("AttributeError")
    ELSE InputParsed(InputLoop(p.ret, keys), keys)

\* SectionInput.parse, sections.py:512-551
SectionInput_parse(cls, name, _lines) ==
    InputOf(cls, SectionItems_parse(cls, name, _lines), SchemaList(cls.input))

\* sections.py:357-362, parts the pieces between the colons: <<>> is None
OneOutput(parts) ==
    IF ~isidentifier(parts[1]) THEN [exc |-> "", ret |-> <<>>]
    ELSE IF Len(parts) < 3
    THEN IF Len(parts) < 2 THEN [exc |-> "IndexError", ret |-> <<>>]
         ELSE [exc |-> "", ret |-> <<parts[1], s_var, parts[2]>>]
    ELSE [exc |-> "", ret |-> parts]

\* _parse_one_output, sections.py:355-362
_parse_one_output(o) == OneOutput(split(o, ":"))

RECURSIVE OutputLoop(_, _, _)

\* sections.py:571-584: one declared output, r the outcome of _parse_one_output
Output(parsed, r, rest, out_names) ==
    IF r.exc # "" THEN PRaise(r.exc)
    ELSE IF r.ret = <<>> THEN OutputLoop(parsed, rest, out_names)
    ELSE OutputLoop(
            [parsed EXCEPT !.items =
                Put(@, r.ret[1],
                    IF Has(@, r.ret[1])
                    THEN [Get(@, r.ret[1]) EXCEPT
                            !.attrs.items = Put(Put(@, s_otype, Str(r.ret[2])),
                                                s_default, Str(r.ret[3]))]
                    ELSE NewTerm(r.ret[1],
                                 ItemAttrs(<<Item(s_otype, Str(r.ret[2])),
                                             Item(s_default, Str(r.ret[3]))>>, <<>>),
                                 None))],
            rest, out_names \cup {r.ret[1]})

\* The loop of SectionOutput.parse over the declared outputs, sections.py:569-584
OutputLoop(parsed, outs, out_names) ==
    IF outs = <<>> THEN POk(parsed, KeySet(parsed.items) \ out_names # {})
    ELSE Output(parsed, _parse_one_output(outs[1]), Tail(outs), out_names)

\* sections.py:566-593, p the outcome of super().parse()
OutputOf(cls, p) ==
    IF p.exc # "" THEN p ELSE OutputLoop(p.ret, SchemaList(cls.output), {})

\* SectionOutput.parse, sections.py:556-593
SectionOutput_parse(cls, name, _lines) ==
    IF cls.output = Absent THEN PRaise("AttributeError")
    ELSE IF ~Truthy(cls.output) THEN POk(ItemTerms(<<>>, Str(name), 0), FALSE)
    ELSE OutputOf(cls, SectionItems_parse(cls, name, _lines))

\* sections.py:600-601, 608-609: p the outcome of super().parse(), envs the
\* class attribute with the defaults
WithCls(p, envs) ==
    IF p.exc # "" THEN p
    ELSE IF envs = Absent THEN PRaise("AttributeError")
    ELSE _update_attrs_with_cls(p.ret, envs)

\* SectionEnvs.parse, sections.py:598-601
SectionEnvs_parse(cls, name, _lines) ==
    WithCls(SectionItems_parse(cls, name, _lines), cls.envs)

\* SectionProcGroupArgs.parse, sections.py:606-609
SectionProcGroupArgs_parse(cls, name, _lines) ==
    WithCls(SectionItems_parse(cls, name, _lines), cls.DEFAULTS)

\* section_class(cls, name) fed with the lines, then .parse()
parse(section_class, cls, name, _lines) ==
    CASE section_class = "SectionSummary" -> SectionSummary_parse(cls, name, _lines)
      [] section_class = "SectionInput" -> SectionInput_parse(cls, name, _lines)
      [] section_class = "SectionOutput" -> SectionOutput_parse(cls, name, _lines)
      [] section_class = "SectionEnvs" -> SectionEnvs_parse(cls, name, _lines)
      [] section_class = "SectionItems" -> SectionItems_parse(cls, name, _lines)
      [] section_class = "SectionProcGroupArgs" ->
            SectionProcGroupArgs_parse(cls, name, _lines)
      [] section_class = "SectionText" -> SectionText_parse(cls, name, _lines)

----------------------------------------------------------------------------
(* The classes under annotation. A class is the record of what annotate    *)
(* reads from it: whether it is a subclass of Proc or ProcGroup, the first *)
(* class of its __mro__ that annotate takes as its base, its __doc__ and   *)
(* its schema attributes.                                                  *)

s_Test == <<"T","e","s","t">>
s_in == <<"i","n",":","f","i","l","e">>

Base_doc ==
    Join(<<"\n">>,
       <<<<"S","u","m","m","a","r","y">>,
          <<>>,
          <<" "," "," "," ","L","o","n","g">>,
          <<>>,
          <<" "," "," "," ","E","n","v","s",":">>,
          <<" "," "," "," "," "," "," "," ","a","r","g","1"," ","(","t","y","p","e",":","i","n","t",")",":"," ","h","e","l","p","1">>,
          <<>>,
          <<" "," "," "," ","T","e","s","t",":">>,
          <<" "," "," "," "," "," "," "," ","a",":"," ","h","e","l","p","1">>,
          <<" "," "," "," ">>>>)

Inherited_doc ==
    Join(<<"\n">>,
       <<<<"S","h","o","r","t">>,
          <<>>,
          <<" "," "," "," ","E","n","v","s",":">>,
          <<" "," "," "," "," "," "," "," ","a","r","g","1"," ","(","c","h","o","i","c","e","s",")",":"," ","h","e","l","p","1","1">>,
          <<" "," "," "," ">>>>)

Plain_doc ==
    Join(<<"\n">>,
       <<<<"S","u","m","m","a","r","y">>,
          <<>>,
          <<" "," "," "," ","T","e","s","t",":">>,
          <<" "," "," "," "," "," "," "," ","a",":"," ","h","e","l","p","1">>,
          <<" "," "," "," ">>>>)

MyGroup_doc ==
    Join(<<"\n">>,
       <<<<"S","u","m","m","a","r","y">>,
          <<>>,
          <<" "," "," "," ","A","r","g","s",":">>,
          <<" "," "," "," "," "," "," "," ","a","r","g","1",":">>,
          <<" "," "," "," ">>>>)

Classes == {"Base", "Inherited", "Plain", "MyGroup", "TestClass", "TestClass2"}

ClassDef(c) ==
    CASE c = "Base" ->
            [kind |-> "Proc", base |-> "None", doc |-> Str(Base_doc),
             input |-> Str(s_in), output |-> None,
             envs |-> Dict("dict", <<Item(s_arg1, Int(1))>>, NoMeta),
             DEFAULTS |-> Absent]
      [] c = "Inherited" ->
            [kind |-> "Proc", base |-> "Base", doc |-> Str(Inherited_doc),
             input |-> Str(s_in), output |-> None,
             envs |-> Dict("dict", <<Item(s_arg1, Int(1)), Item(s_arg3, Int(3))>>, NoMeta),
             DEFAULTS |-> Absent]
      [] c = "Plain" ->
            [kind |-> "object", base |-> "None", doc |-> Str(Plain_doc),
             input |-> Absent, output |-> Absent, envs |-> Absent,
             DEFAULTS |-> Absent]
      [] c = "MyGroup" ->
            [kind |-> "ProcGroup", base |-> "None", doc |-> Str(MyGroup_doc),
             input |-> Absent, output |-> Absent, envs |-> Absent,
             DEFAULTS |-> Dict("dict", <<Item(s_arg1, Int(1))>>, NoMeta)]
      [] c = "TestClass" ->            \* a class without a docstring
            [kind |-> "object", base |-> "None", doc |-> None,
             input |-> Absent, output |-> Absent, envs |-> Absent,
             DEFAULTS |-> Absent]
      [] c = "TestClass2" ->           \* a Proc without a docstring or a schema
            [kind |-> "Proc", base |-> "None", doc |-> None,
             input |-> None, output |-> None, envs |-> None,
             DEFAULTS |-> Absent]

\* annotate.py:59-64, parts the docstring split at its first line break
FirstAndRest(parts) ==
    parts[1] \o <<"\n">> \o textwrap_dedent(IF Len(parts) = 1 THEN <<>> ELSE parts[2])

\* annotate.py:55-68: the lines of the dedented docstring
DocLines(docstring) ==
    splitlines(IF IsBlankChar(docstring[1]) THEN textwrap_dedent(docstring)
               ELSE FirstAndRest(split1(docstring, "\n")))

\* annotated[section_name] = r, annotate.py:72, 82, 90, r the outcome of
\* section.parse()
SetSection(st, r) ==
    IF r.exc # "" THEN [st EXCEPT !.exc = r.exc]
    ELSE [st EXCEPT !.annotated = Put(@, st.section_name, r.ret),
                    !.warn = @ \/ r.warn]

\* annotated[section_name] = section.parse(), annotate.py:72, 82, 90
CloseSection(cls, st) ==
    SetSection(st, parse(st.section, cls, st.section_name, st._lines))

RECURSIVE SplitLoop(_, _, _, _)

\* annotate.py:73-80, 83-84: the section that the header line opens, c the
\* state after the section before it was parsed
OpenSection(registry, cls, c, head, rest) ==
    IF c.exc # "" THEN c
    ELSE SplitLoop(registry, cls,
            [c EXCEPT !.section_name = head, !._lines = <<>>,
                      !.section = IF ~Has(registry, head) THEN "SectionText"
                                  ELSE IF head = s_Args /\ cls.kind = "ProcGroup"
                                  THEN "SectionProcGroupArgs"
                                  ELSE Get(registry, head)],
            rest)

\* the test of annotate.py:70-77 without the lookup of the registry and
\* without is_section: every line ending in a colon opens a section
SplitLine_any_colon(registry, cls, st, line, rest) ==
    IF line # <<>> /\ line[Len(line)] = ":"
    THEN OpenSection(registry, cls, CloseSection(cls, st),
                     Upto(line, Len(line) - 1), rest)
    ELSE SplitLoop(registry, cls, [st EXCEPT !._lines = Append(@, line)], rest)

\* annotate.py:69-88: one line, already rstripped
SplitLine(registry, cls, st, line, rest) ==
    IF /\ line # <<>> /\ line[Len(line)] = ":"
       /\ \/ Has(registry, Upto(line, Len(line) - 1))
          \/ is_section(Upto(line, Len(line) - 1))
    THEN OpenSection(registry, cls, CloseSection(cls, st),
                     Upto(line, Len(line) - 1), rest)
    ELSE SplitLoop(registry, cls, [st EXCEPT !._lines = Append(@, line)], rest)

\* The loop of _annotate_uninherited over the lines, annotate.py:68-90
SplitLoop(registry, cls, st, lines) ==
    IF lines = <<>> THEN CloseSection(cls, st)
    ELSE SplitLine(registry, cls, st, rstrip(lines[1]), Tail(lines))

\* _annotate_uninherited without the block of annotate.py:92-104
Synthesize_skipped(cls, st, todo) == st

RECURSIVE Synthesize(_, _, _)
\* annotate.py:92-104: the schema-linked sections the docstring did not have
Synthesize(cls, st, todo) ==
    IF todo = <<>> \/ st.exc # "" THEN st
    ELSE IF Has(st.annotated, todo[1].k) THEN Synthesize(cls, st, Tail(todo))
    ELSE Synthesize(cls,
            CloseSection(cls, [st EXCEPT !.section_name = todo[1].k,
                                         !.section = todo[1].v, !._lines = <<>>]),
            Tail(todo))

\* annotate.py:92-104: the sections synthesized for a Proc or a ProcGroup
SchemaSections(cls) ==
    IF cls.kind = "Proc"
    THEN <<Item(s_Summary, "SectionSummary"), Item(s_Input, "SectionInput"),
           Item(s_Output, "SectionOutput"), Item(s_Envs, "SectionEnvs")>>
    ELSE IF cls.kind = "ProcGroup"
    THEN <<Item(s_Args, "SectionProcGroupArgs")>>
    ELSE <<>>

\* annotate.py:106: the outcome [exc, ret, warn], ret the items of the tree
Annotated(st) == [exc |-> st.exc, ret |-> st.annotated, warn |-> st.warn]

\* _annotate_uninherited(cls), annotate.py:43-106
_annotate_uninherited(registry, cls) ==
    Annotated(
        Synthesize(cls,
            IF Truthy(cls.doc)
            THEN SplitLoop(registry, cls,
                    [annotated |-> <<>>, section_name |-> s_Summary,
                     section |-> "SectionSummary", _lines |-> <<>>,
                     warn |-> FALSE, exc |-> ""],
                    DocLines(cls.doc.s))
            ELSE [annotated |-> <<>>, section_name |-> s_Summary,
                  section |-> "SectionSummary", _lines |-> <<>>,
                  warn |-> FALSE, exc |-> ""],
            SchemaSections(cls)))

RECURSIVE annotate(_, _, _, _)

\* mark(annotate_annotated=annotated)(cls), annotate.py:159, u the outcome
\* of _update_annotation, b of annotate(base)
MarkAnnotated(c, b, u) ==
    IF u.exc # "" THEN [exc |-> u.exc, h |-> u.h, m |-> b.m, ret |-> 0]
    ELSE [exc |-> "", h |-> u.h,
          m |-> [b.m EXCEPT ![c].annotated = u.ret], ret |-> u.ret]

\* annotate.py:158, a the allocated tree of the class, b the outcome of
\* annotate(base)
MergeBase(registry, c, a, b) ==
    IF b.exc # "" THEN [exc |-> b.exc, h |-> b.h, m |-> b.m, ret |-> 0]
    ELSE MarkAnnotated(c, b, _update_annotation(registry, b.h, b.ret, a.ret))

\* annotate.py:144-157: annotated_base = annotate(base) if inherit and base
\* else None, base the first class of the __mro__ that is not a framework class
AnnotateBase(registry, m, c, inherit, a) ==
    MergeBase(registry, c, a,
              IF inherit /\ ClassDef(c).base # "None"
              THEN annotate(registry, a.h, m, ClassDef(c).base)
              ELSE [exc |-> "", h |-> a.h, m |-> m, ret |-> 0])

\* annotate.py:143, own the outcome of _annotate_uninherited(cls)
Own(registry, h, m, c, inherit, own) ==
    IF own.exc # "" THEN [exc |-> own.exc, h |-> h, m |-> m, ret |-> 0]
    ELSE AnnotateBase(registry, m, c, inherit, AllocTree(h, own.ret))

\* annotate.py:143-159: parse the class, annotate its base, merge and mark
Recompute(registry, h, m, c, inherit) ==
    Own(registry, h, m, c, inherit, _annotate_uninherited(registry, ClassDef(c)))

\* bool(get_marked(cls, "annotate_annotated")): marked, with a tree that has sections
IsAnnotated(h, m, c) == m[c].annotated # 0 /\ h[m[c].annotated].items # <<>>

\* annotate without the test of line 142: the tree is computed on every call
annotate_uncached(registry, h, m, c) == Recompute(registry, h, m, c, m[c].inherit)

\* annotate that does not read the annotate_inherit mark
annotate_inheriting(registry, h, m, c) ==
    IF ~IsAnnotated(h, m, c) \/ ClassDef(c).kind \notin {"Proc", "ProcGroup"}
    THEN Recompute(registry, h, m, c, TRUE)
    ELSE [exc |-> "", h |-> h, m |-> m, ret |-> m[c].annotated]

\* annotate(cls), annotate.py:129-161, on the heap h and the marks m:
\* [exc, h, m, ret] with ret the address of the returned tree
annotate(registry, h, m, c) ==
    LET inherit == m[c].inherit          \* get_marked(cls, "annotate_inherit", True)
        is_proc_or_pg == ClassDef(c).kind \in {"Proc", "ProcGroup"}
    IN  IF ~IsAnnotated(h, m, c) \/ ~is_proc_or_pg
        THEN Recompute(registry, h, m, c, inherit)
        ELSE [exc |-> "", h |-> h, m |-> m, ret |-> m[c].annotated]

\* _register_section(section, section_class), annotate.py:164-195, with a
\* shortcut (a str) or a section class: [exc, registry, ret]
_register_section(registry, section, section_class) ==
    IF section_class.type = "str"
    THEN LET t == title(section_class.s)
         IN  IF ~Has(registry, t)
             THEN [exc |-> "ValueError", registry |-> registry, ret |-> "None"]
             ELSE [exc |-> "", registry |-> Put(registry, section, Get(registry, t)),
                   ret |-> Get(registry, t)]
    ELSE [exc |-> "", registry |-> Put(registry, section, section_class.name),
          ret |-> section_class.name]

\* _unregister_section(section), annotate.py:198-204: SECTION_TYPES.pop(section, None)
_unregister_section(registry, section) ==
    LET other(it) == it.k # section
    IN  SelectSeq(registry, other)

----------------------------------------------------------------------------
(* Spec: calls of register_section, unregister_section and annotate, and   *)
(* the clearing of a class's annotate_annotated mark, in any order.        *)

MaxCalls == 3       \* calls made in a behaviour

s_summary == <<"s","u","m","m","a","r","y">>
s_input == <<"i","n","p","u","t">>
s_output == <<"o","u","t","p","u","t">>
s_envs == <<"e","n","v","s">>
s_items == <<"i","t","e","m","s">>
s_text == <<"t","e","x","t">>
s_notes == <<"n","o","t","e","s">>
s_invalid == <<"i","n","v","a","l","i","d">>

\* the shortcuts of the docstring of _register_section, annotate.py:174-179
Keywords == {s_summary, s_input, s_output, s_envs, s_items, s_text}

\* The second argument of register_section: a shortcut, or a section class
SectionClassArgs ==
    {Str(k) : k \in Keywords \cup {s_notes, s_invalid}}
    \cup {[type |-> "type", name |-> "SectionItems"]}

\* The section names registered
SectionArgs == {s_Test, s_Text}

\* The section names unregistered
UnregisterArgs == SectionArgs \cup {s_Summary}

Init ==
    /\ SECTION_TYPES = SECTION_TYPES_0
    /\ heap = <<>>
    /\ \E i \in BOOLEAN :
          marked = [c \in Classes |->
                      [annotated |-> 0, inherit |-> IF c = "Inherited" THEN i ELSE TRUE]]
    /\ inp = [op |-> "import"]
    /\ out = [exc |-> "", ret |-> 0]
    /\ step = 0

\* annotate.register_section(section, section_class)
RegisterSection ==
    /\ step < MaxCalls
    /\ \E section \in SectionArgs, section_class \in SectionClassArgs :
          \E r \in {_register_section(SECTION_TYPES, section, section_class)} :
              /\ SECTION_TYPES' = r.registry
              /\ inp' = [op |-> "register_section", section |-> section,
                         section_class |-> section_class]
              /\ out' = [exc |-> r.exc, ret |-> r.ret]
    /\ step' = step + 1
    /\ UNCHANGED <<heap, marked>>

\* annotate.unregister_section(section)
UnregisterSection ==
    /\ step < MaxCalls
    /\ \E section \in UnregisterArgs :
          /\ SECTION_TYPES' = _unregister_section(SECTION_TYPES, section)
          /\ inp' = [op |-> "unregister_section", section |-> section]
    /\ out' = [exc |-> "", ret |-> 0]
    /\ step' = step + 1
    /\ UNCHANGED <<heap, marked>>

\* annotate(cls)
Annotate ==
    /\ step < MaxCalls
    /\ \E c \in Classes :
          \E r \in {annotate(SECTION_TYPES, heap, marked, c)} :
              /\ heap' = r.h
              /\ marked' = r.m
              /\ inp' = [op |-> "annotate", cls |-> c]
              /\ out' = [exc |-> r.exc, ret |-> r.ret]
    /\ step' = step + 1
    /\ UNCHANGED SECTION_TYPES

\* mark(annotate_annotated=None)(cls): the explicit clearing of the cache
ClearCache ==
    /\ step < MaxCalls
    /\ \E c \in Classes :
          /\ marked' = [marked EXCEPT ![c].annotated = 0]
          /\ inp' = [op |-> "clear", cls |-> c]
    /\ out' = [exc |-> "", ret |-> 0]
    /\ step' = step + 1
    /\ UNCHANGED <<SECTION_TYPES, heap>>

Next == RegisterSection \/ UnregisterSection \/ Annotate \/ ClearCache

Spec == Init /\ [][Next]_vars

----------------------------------------------------------------------------
(* Claims on annotate and the registry (Spec) *)

\* the step just taken is annotate(c)
AnnotateStep(c) == inp'.op = "annotate" /\ inp'.cls = c

\* C8: annotate(cls) of a class marked annotate_inherit=False returns the
\* tree parsed from the class's own docstring and schema and nothing of a
\* base, and no base is looked up or annotated: the marks of every other
\* class are unchanged, and the heap gains the class's own tree only.
C8_NoInheritNoBase ==
    [][\A c \in Classes :
          AnnotateStep(c) /\ ~marked[c].inherit /\ marked[c].annotated = 0
          /\ out'.exc = ""
          => /\ Deref(heap', out'.ret).items =
                    _annotate_uninherited(SECTION_TYPES, ClassDef(c)).ret
             /\ \A b \in Classes \ {c} : marked'[b] = marked[b]
             /\ Len(heap') = Len(heap) + Len(heap'[out'.ret].items) + 1
             /\ SubSeq(heap', 1, Len(heap)) = heap]_vars

\* C8's case: Base is annotated and has a Test section and a type attribute
\* on arg1; Inherited, marked annotate_inherit=False, has just been annotated
\* and its tree has neither
C8_Witness ==
    /\ inp.op = "annotate" /\ inp.cls = "Inherited" /\ out.exc = ""
    /\ ~marked["Inherited"].inherit
    /\ marked["Inherited"].annotated = out.ret
    /\ marked["Base"].annotated # 0
    /\ Has(Deref(heap, marked["Base"].annotated).items, s_Test)
    /\ ~Has(Deref(heap, out.ret).items, s_Test)
    /\ ~Has(Get(Get(Deref(heap, out.ret).items, s_Envs).items, s_arg1).attrs.items,
            s_type)

\* a later annotate(c) returns the cached tree at once, the cached tree is
\* never modified, and the mark only goes away by an explicit clear
Cached(c) ==
    marked[c].annotated # 0
    => /\ AnnotateStep(c)
          => out'.ret = marked[c].annotated /\ out'.exc = ""
             /\ heap' = heap /\ marked' = marked
       /\ Deref(heap', marked[c].annotated) = Deref(heap, marked[c].annotated)
       /\ \/ marked'[c].annotated = marked[c].annotated
          \/ inp'.op = "clear" /\ inp'.cls = c

\* C9 as stated: the tree of every annotated class is computed at most
\* once; whatever register_section, unregister_section or annotate calls on
\* other classes happen in between, a later annotate(cls) returns the cached
\* tree without parsing or merging again, until an explicit cache clear.
C9_ComputedOnce == [][\A c \in Classes : Cached(c)]_vars

\* C9, amended: the tree of every annotated subclass of Proc or ProcGroup is
\* computed at most once and returned from the cache by every later
\* annotate(cls), whatever the registry changes and other calls in between,
\* until an explicit cache clear; a class that is neither is parsed and
\* merged again by every annotate(cls).
C9_ComputedOnceForProcs ==
    [][\A c \in Classes :
          IF ClassDef(c).kind \in {"Proc", "ProcGroup"} THEN Cached(c)
          ELSE AnnotateStep(c) /\ out'.exc = ""
               => /\ out'.ret > Len(heap)
                  /\ Deref(heap', out'.ret).items =
                        _annotate_uninherited(SECTION_TYPES, ClassDef(c)).ret]_vars

\* C9's case: Base was annotated while Test was not registered, Test was
\* registered as an items section since, and annotate(Base) has just
\* returned the cached tree, in which Test is still a text section
C9_Witness ==
    /\ inp.op = "annotate" /\ inp.cls = "Base" /\ out.exc = ""
    /\ out.ret = marked["Base"].annotated
    /\ Has(SECTION_TYPES, s_Test) /\ Get(SECTION_TYPES, s_Test) = "SectionItems"
    /\ Get(Deref(heap, out.ret).items, s_Test).type = "TextParsed"
    /\ Len(heap) = out.ret

\* the builtin shortcuts and the section classes they stand for,
\* annotate.py:174-179
BuiltinShortcuts ==
    <<Item(s_summary, "SectionSummary"), Item(s_input, "SectionInput"),
      Item(s_output, "SectionOutput"), Item(s_envs, "SectionEnvs"),
      Item(s_items, "SectionItems"), Item(s_text, "SectionText")>>

\* C10: register_section(name, shortcut) with a string shortcut succeeds
\* exactly when the shortcut is one of summary, input, output, envs, items,
\* text, and then maps name to that builtin section class, in every state
\* of the registry; with any other string it raises ValueError and leaves
\* the registry unchanged.
C10_ShortcutIsBuiltin ==
    [][inp'.op = "register_section" /\ inp'.section_class.type = "str"
       => IF Has(BuiltinShortcuts, inp'.section_class.s)
          THEN /\ out'.exc = ""
               /\ out'.ret = Get(BuiltinShortcuts, inp'.section_class.s)
               /\ SECTION_TYPES' = Put(SECTION_TYPES, inp'.section, out'.ret)
          ELSE /\ out'.exc = "ValueError"
               /\ SECTION_TYPES' = SECTION_TYPES]_vars

----------------------------------------------------------------------------
(* SpecParse: one section object that has consumed some lines is parsed.   *)
(* inp is [section, cls, name, lines]: the class of the section, the class *)
(* under annotation with its schema attributes, the name of the section    *)
(* and the lines consumed; out is the outcome [exc, ret, warn] of parse.   *)

MaxLines == 3       \* lines consumed by the section

s_d == <<"d">>
s_e == <<"e">>
s_f == <<"f">>

l_a == <<"a",":"," ","h">>
l_a_itype == <<"a"," ","(","i","t","y","p","e",":","q",")",":"," ","h">>
l_b == <<"b",":"," ","g">>
l_b_badattr == <<"b"," ","(",",",")",":"," ","g">>
l_b_ns == <<"b"," ","(","n","s",")",":"," ","g">>
l_junk == <<"j","u","n","k">>
l_more == <<" "," ","m","o","r","e">>
l_sub_c == <<" "," ","-"," ","c",":"," ","k">>
l_sub_junk == <<" "," ","-"," ","d">>

\* Lines of an items section: term headers with and without attributes, a
\* header whose attributes are malformed, one marked as a namespace, a blank
\* line, a line that is no header, a continuation line, and sub-term lines
\* that are and are not headers
ItemLines ==
    {l_a, l_a_itype, l_b, l_b_badattr, l_b_ns, <<>>, l_junk, l_more, l_sub_c, l_sub_junk}

l_Abc == <<"A","b","c">>
l_def == <<" "," "," "," ","d","e","f">>
l_blanks == <<" "," "," "," ">>
l_Ghi == <<"G","h","i",".">>

\* Lines of a summary or a text section
TextLineSet == {l_Abc, l_def, l_blanks, <<>>, l_Ghi}

\* the sequences of at most n elements of S
SeqsUpTo(S, n) == UNION {[1..k -> S] : k \in 0..n}

\* a class with the schema attributes input, output, envs and DEFAULTS
SchemaCls(input, output, envs, DEFAULTS) ==
    [kind |-> "Proc", base |-> "None", doc |-> None,
     input |-> input, output |-> output, envs |-> envs, DEFAULTS |-> DEFAULTS]

PyDict(items) == Dict("dict", items, NoMeta)

\* the declarations of input: None, a comma-joined string, a list
InputSchemas ==
    {None, Str(<<"a",":","f","i","l","e","s",","," ","b">>), List("list", <<Str(<<"b",":","d","i","r">>)>>)}

\* the declarations of output: None, a comma-joined string of a three-field
\* and a two-field entry, a list with an entry that has no identifier and
\* one whose default holds a colon, and a bare name
OutputSchemas ==
    {None, Str(<<"a",":","f","i","l","e",":","x",","," ","b",":","y">>),
     List("list", <<Str(<<"1","a",":","z">>), Str(<<"b",":","d","i","r",":","x",":","y">>)>>),
     Str(<<"a">>)}

\* the declarations of envs and DEFAULTS: nothing, flat, nested
EnvsSchemas ==
    {None,
     PyDict(<<Item(s_a, Int(1)), Item(s_b, Int(2))>>),
     PyDict(<<Item(s_a, PyDict(<<Item(s_c, Int(3)), Item(s_d, Int(4))>>)),
              Item(s_b, PyDict(<<Item(s_e, PyDict(<<Item(s_f, Int(6))>>))>>))>>)}

\* The sections parsed: [section, cls, name]
ParseInputs ==
    {[section |-> "SectionItems", cls |-> SchemaCls(None, None, None, None),
      name |-> s_Items]}
    \cup {[section |-> "SectionInput", cls |-> SchemaCls(i, None, None, None),
           name |-> s_Input] : i \in InputSchemas}
    \cup {[section |-> "SectionOutput", cls |-> SchemaCls(None, o, None, None),
           name |-> s_Output] : o \in OutputSchemas}
    \cup {[section |-> "SectionEnvs", cls |-> SchemaCls(None, None, e, None),
           name |-> s_Envs] : e \in EnvsSchemas}
    \cup {[section |-> "SectionProcGroupArgs", cls |-> SchemaCls(None, None, None, e),
           name |-> s_Args] : e \in EnvsSchemas}
    \cup {[section |-> "SectionSummary", cls |-> SchemaCls(None, None, None, None),
           name |-> s_Summary],
          [section |-> "SectionText", cls |-> SchemaCls(None, None, None, None),
           name |-> s_Notes]}

\* the lines a section of the class may have consumed
ConsumedLines(section) ==
    IF section \in {"SectionSummary", "SectionText"}
    THEN SeqsUpTo(TextLineSet, MaxLines)
    ELSE SeqsUpTo(ItemLines, MaxLines)

InitParse ==
    /\ SECTION_TYPES = SECTION_TYPES_0
    /\ heap = <<>>
    /\ marked = <<>>
    /\ \E s \in ParseInputs :
          \E l \in ConsumedLines(s.section) :
             inp = [section |-> s.section, cls |-> s.cls, name |-> s.name, lines |-> l]
    /\ out = [exc |-> "", ret |-> None, warn |-> FALSE]
    /\ step = "consumed"

\* section.parse()
Parse ==
    /\ step = "consumed"
    /\ out' = parse(inp.section, inp.cls, inp.name, inp.lines)
    /\ step' = "parsed"
    /\ UNCHANGED <<SECTION_TYPES, heap, marked, inp>>

NextParse == Parse

SpecParse == InitParse /\ [][NextParse]_vars

----------------------------------------------------------------------------
(* Claims on the parse of one section (SpecParse) *)

Parsed == step = "parsed"

\* the sections whose parse reads a schema attribute of the class
SchemaLinked == {"SectionInput", "SectionOutput", "SectionEnvs", "SectionProcGroupArgs"}

\* the entries of an output declaration whose name is an identifier
OutputEntries(cls) ==
    {o \in Range(SchemaList(cls.output)) : isidentifier(split(o, ":")[1])}

\* the keys the schema of the class declares for the section
DeclaredKeys(section, cls) ==
    CASE section = "SectionInput" ->
            {split1(k, ":")[1] : k \in Range(SchemaList(cls.input))}
      [] section = "SectionOutput" -> {split(o, ":")[1] : o \in OutputEntries(cls)}
      [] section = "SectionEnvs" ->
            IF IsDict(cls.envs) THEN KeySet(cls.envs.items) ELSE {}
      [] section = "SectionProcGroupArgs" ->
            IF IsDict(cls.DEFAULTS) THEN KeySet(cls.DEFAULTS.items) ELSE {}
      [] OTHER -> {}

\* the terms the consumed lines document, whatever the schema says
Documented == _parse_terms(inp.lines, None, 0, Str(inp.name))

MissingRule(keys, doc, o) ==
    \A k \in keys :
        /\ Has(o.ret.items, k)
        /\ ~Has(doc.ret.items, k) =>
              /\ Get(o.ret.items, k).help = <<>>
              /\ o.warn

\* C11: when a schema-linked section is parsed, every declared key has a
\* term, and a declared key that the lines do not document gets a term with
\* empty help and a warning is emitted with the normal result.
C11_MissingWarned ==
    (Parsed /\ inp.section \in SchemaLinked /\ out.exc = "") =>
        MissingRule(DeclaredKeys(inp.section, inp.cls), Documented, out)

\* the documented terms that the schema of the class does not declare
Unknown(doc, keys) == KeySet(doc.ret.items) \ keys

UnknownRule(doc, keys, o) ==
    \A k \in Unknown(doc, keys) :
        /\ Has(o.ret.items, k)
        /\ Get(o.ret.items, k) = Get(doc.ret.items, k)
        /\ o.warn

\* C12: when a schema-linked section is parsed, every documented term that
\* the schema does not declare is in the result exactly as the lines give
\* it, and an UnknownAnnotationItemWarning is emitted, whatever the class
\* declares (nothing at all included).
C12_UnknownKeptAndWarned ==
    (Parsed /\ inp.section \in SchemaLinked /\ Documented.exc = "" /\ out.exc = "") =>
        UnknownRule(Documented, DeclaredKeys(inp.section, inp.cls), out)

\* a top-level term header, name[ (attrs)]: help, whose attribute clauses
\* all are name[:=value]
WellFormedHeader(line) ==
    /\ ITEM_LINE_REGEX_match(line).ok
    /\ MatchedAttrs(ITEM_LINE_REGEX_match(line)).exc = ""

\* a line that the two conditions of MalFormattedAnnotationError can be
\* about: not blank, and no well-formed header of the top level
Offending(line) == strip(line) # <<>> /\ ~WellFormedHeader(line)

\* C13: the parse of an items section raises MalFormattedAnnotationError
\* only for a non-blank line that is no term header or for a header with a
\* malformed attribute clause, so lines that are all blank or well-formed
\* headers never raise; and what raises returns no tree.
C13_RaisesOnlyOnMalformedLine ==
    (Parsed /\ inp.section = "SectionItems") =>
        /\ out.exc \in {"", "MalFormattedAnnotationError"}
        /\ out.exc # "" => /\ \E i \in 1..Len(inp.lines) : Offending(inp.lines[i])
                           /\ out.ret = None

\* the term t has the attribute key with the value v
AttrIs(t, key, v) == Has(t.attrs.items, key) /\ Get(t.attrs.items, key) = v

\* the type a declared input key name[:type] declares
DeclaredType(kt) == IF Len(split1(kt, ":")) = 1 THEN s_var ELSE split1(kt, ":")[2]

\* what SectionInput.parse promises of the term t of the declared key kt
InputRule(kt, t, doc) ==
    /\ AttrIs(t, s_itype, Str(DeclaredType(kt)))
    /\ AttrIs(t, s_nargs, Str(<<"+">>))
    /\ AttrIs(t, s_action,
              Str(IF DeclaredType(kt) \in {s_files, s_dirs} THEN s_append ELSE s_extend))
    /\ Has(doc.ret.items, t.name) => t.help = Get(doc.ret.items, t.name).help

\* C14: after SectionInput.parse every declared input key name[:type] has a
\* term whose itype is the declared type (var when none is declared, a
\* documented itype is overwritten), whose nargs is "+" and whose action is
\* "append" for files and dirs and "extend" otherwise; a documented term
\* keeps its help.
C14_InputAttrs ==
    (Parsed /\ inp.section = "SectionInput" /\ out.exc = "") =>
        \A kt \in Range(SchemaList(inp.cls.input)) :
            /\ Has(out.ret.items, split1(kt, ":")[1])
            /\ InputRule(kt, Get(out.ret.items, split1(kt, ":")[1]), Documented)

\* a documented term with an itype of its own is parsed under a declaration
\* that also has a key that is not documented
C14_Witness ==
    /\ Parsed /\ inp.section = "SectionInput" /\ out.exc = ""
    /\ inp.cls.input = Str(<<"a",":","f","i","l","e","s",","," ","b">>)
    /\ inp.lines = <<l_a_itype, l_more>>
    /\ Get(Documented.ret.items, s_a).attrs.items = <<Item(s_itype, Str(<<"q">>))>>
    /\ Get(Get(out.ret.items, s_a).attrs.items, s_itype) = Str(s_files)
    /\ Get(out.ret.items, s_a).help = <<"h"," ","m","o","r","e">>
    /\ Get(Get(out.ret.items, s_b).attrs.items, s_action) = Str(s_extend)

\* the type and the default an output entry name:[type:]default declares: the
\* default is all that follows the type
DeclaredOType(o) == IF Len(split(o, ":")) < 3 THEN s_var ELSE split(o, ":")[2]
DeclaredDefault(o) ==
    IF Len(split(o, ":")) < 3 THEN split1(o, ":")[2]
    ELSE split1(split1(o, ":")[2], ":")[2]

\* what SectionOutput.parse promises of the declared entry o
OutputRule(o, name, doc, o_out) ==
    IF isidentifier(name)
    THEN /\ Has(o_out.ret.items, name)
         /\ AttrIs(Get(o_out.ret.items, name), s_otype, Str(DeclaredOType(o)))
         /\ AttrIs(Get(o_out.ret.items, name), s_default, Str(DeclaredDefault(o)))
    ELSE Has(o_out.ret.items, name) <=> Has(doc.ret.items, name)

\* C15: after SectionOutput.parse with a declared output, every entry
\* name:[type:]default with an identifier name has a term whose otype and
\* default are the declared ones (otype var for name:default), documented or
\* not, and an entry whose name is no identifier adds no term and no warning.
C15_OutputAttrs ==
    (Parsed /\ inp.section = "SectionOutput" /\ Truthy(inp.cls.output) /\ out.exc = "") =>
        /\ \A o \in {e \in Range(SchemaList(inp.cls.output)) : Len(split(e, ":")) > 1} :
              OutputRule(o, split(o, ":")[1], Documented, out)
        /\ out.warn => Unknown(Documented, DeclaredKeys(inp.section, inp.cls)) # {}

\* C16: SectionOutput.parse accepts every declared entry name[:type[:default]]
\* with an identifier name, a bare name included: when its lines are well
\* formed the parse raises nothing and the result has a term for the name.
C16_OutputEntryAccepted ==
    (Parsed /\ inp.section = "SectionOutput" /\ Truthy(inp.cls.output)
        /\ Documented.exc = "") =>
        /\ out.exc = ""
        /\ \A name \in DeclaredKeys(inp.section, inp.cls) : Has(out.ret.items, name)

\* the term the lines document for key, or the fresh term of a key they do not
DocTerm(terms, key) ==
    IF Has(terms.items, key) THEN Get(terms.items, key)
    ELSE NewTerm(key, ItemAttrs(<<>>, <<>>), None)

\* the documentation marks the term as a namespace
MarkedNs(d) ==
    \/ (Has(d.attrs.items, s_ns) /\ Truthy(Get(d.attrs.items, s_ns)))
    \/ (Has(d.attrs.items, s_namespace) /\ Truthy(Get(d.attrs.items, s_namespace)))
    \/ (Has(d.attrs.items, s_action)
            /\ Get(d.attrs.items, s_action) \in {Str(s_ns), Str(s_namespace)})

RECURSIVE EveryMappingWalked(_, _)
\* every key of the defaults has a term, and the term of a mapping value is
\* marked ns and has the keys of the mapping walked in the same way
EveryMappingWalked(defaults, terms) ==
    \A i \in 1..Len(defaults) :
        /\ Has(terms.items, defaults[i].k)
        /\ defaults[i].v.type = "dict" =>
              /\ Has(Get(terms.items, defaults[i].k).attrs.items, s_ns)
              /\ EveryMappingWalked(defaults[i].v.items,
                                    Get(terms.items, defaults[i].k).terms)

RECURSIVE DocumentedWalked(_, _, _)
\* every key of the defaults has a term with the default of the schema unless
\* one is documented; the term is marked ns and its mapping is walked when the
\* documentation marks it or gives it sub-terms; otherwise the term keeps the
\* sub-terms and the attributes it was documented with
WalkedTerm(d, value, t) ==
    /\ t.help = d.help
    /\ AttrIs(t, s_default, IF Has(d.attrs.items, s_default)
                            THEN Get(d.attrs.items, s_default) ELSE value)
    /\ IF MarkedNs(d) \/ (value.type = "dict" /\ d.terms.items # <<>>)
       THEN /\ Has(t.attrs.items, s_ns)
            /\ DocumentedWalked(IF value.type = "dict" THEN value.items ELSE <<>>,
                                d.terms, t.terms)
       ELSE /\ ~Has(t.attrs.items, s_ns)
            /\ t.terms = d.terms

DocumentedWalked(defaults, doc, terms) ==
    \A i \in 1..Len(defaults) :
        /\ Has(terms.items, defaults[i].k)
        /\ WalkedTerm(DocTerm(doc, defaults[i].k), defaults[i].v,
                      Get(terms.items, defaults[i].k))

\* the defaults SectionEnvs / SectionProcGroupArgs read from the class
Defaults(section, cls) == IF section = "SectionEnvs" THEN cls.envs ELSE cls.DEFAULTS

EnvsParsed == Parsed /\ inp.section \in {"SectionEnvs", "SectionProcGroupArgs"}

SummaryLines(_lines) ==
    IF _lines = <<>> THEN _lines
    ELSE IF _lines[1] # <<>> /\ IsBlankChar(_lines[1][1]) THEN dedent(_lines)
    ELSE <<_lines[1]>> \o dedent(Tail(_lines))

\* the lines from the first one that is not blank
FromNonBlank(lines) ==
    From(lines, LeadLen(lines, LAMBDA l : l = <<>>) + 1)

\* short and long of lines that start with a non-blank line: the lines before
\* the first blank one joined with spaces, the lines after it with newlines
ShortLong(lines, blanks) ==
    IF blanks = {} THEN SummaryParsed(Join(<<" ">>, lines), <<>>)
    ELSE SummaryParsed(Join(<<" ">>, Upto(lines, Min(blanks) - 1)),
                       Join(<<"\n">>, From(lines, Min(blanks) + 1)))

ShortLongOf(lines) == ShortLong(lines, {i \in 1..Len(lines) : lines[i] = <<>>})

\* C19: SectionSummary.parse gives as short the first non-blank lines up to
\* the first blank line after them, joined with spaces, and as long the
\* dedented lines after that blank line, joined with newlines (empty when
\* there is no such blank line), for lines that start with a blank line too.
C19_ShortLong ==
    (Parsed /\ inp.section = "SectionSummary") =>
        /\ out.exc = ""
        /\ out.ret = ShortLongOf(FromNonBlank(SummaryLines(inp.lines)))

\* the elements of seq at the indices in K, in order
At(seq, K) ==
    [j \in 1..Cardinality(K) |->
        seq[CHOOSE i \in K : Cardinality({x \in K : x <= i}) = j]]

NonBlank(lines) == {i \in 1..Len(lines) : lines[i] # <<>>}

\* the blank lines that are directly followed by a non-blank line
LastOfRun(lines) ==
    {i \in 1..Len(lines) : lines[i] = <<>> /\ i + 1 \in NonBlank(lines)}

\* the lines of the TextParsed that SectionText.parse returned
TextLinesOf(o) == Get(o.ret.items, s_lines).elems

TextParsedOk == Parsed /\ inp.section = "SectionText" /\ out.exc = ""

\* C20 as stated: the lines of SectionText.parse are the dedented lines with
\* every run of blank lines between two non-blank lines collapsed to one and
\* all leading and trailing blank lines dropped.
C20_NoLeadingBlank ==
    TextParsedOk =>
        TextLinesOf(out) =
            At(dedent(inp.lines),
               NonBlank(dedent(inp.lines))
                 \cup {i \in LastOfRun(dedent(inp.lines)) :
                         \E j \in NonBlank(dedent(inp.lines)) : j < i})

\* C20 amended: the lines of SectionText.parse are the dedented lines with
\* every run of blank lines that a non-blank line follows collapsed to one,
\* the run at the very start included, and the trailing blank lines dropped.
C20_OneLeadingBlankKept ==
    (Parsed /\ inp.section = "SectionText") =>
        /\ out.exc = ""
        /\ TextLinesOf(out) =
              At(dedent(inp.lines),
                 NonBlank(dedent(inp.lines)) \cup LastOfRun(dedent(inp.lines)))

\* two blank lines before the first text line: one of them is kept
C20_Witness ==
    /\ TextParsedOk
    /\ inp.lines = <<<<>>, l_blanks, l_def>>
    /\ dedent(inp.lines) = <<<<>>, <<>>, <<"d","e","f">>>>
    /\ TextLinesOf(out) = <<<<>>, <<"d","e","f">>>>

----------------------------------------------------------------------------
(* Claims on the sections of the tree of a class (Spec) *)

\* the docstring of the class has the header line of the section
HasHeader(cls, name) ==
    /\ Truthy(cls.doc)
    /\ \E i \in 1..Len(DocLines(cls.doc.s)) :
          rstrip(DocLines(cls.doc.s)[i]) = name \o <<":">>

\* the schema-linked sections of a Proc and their classes
ProcSections ==
    <<Item(s_Input, "SectionInput"), Item(s_Output, "SectionOutput"),
      Item(s_Envs, "SectionEnvs")>>

\* the tree of a Proc has the section; without a header in the docstring (and
\* without a base to merge with) it is the parse of no lines, which is the
\* empty mapping when the class declares nothing
SectionPresent(cls, tree, name, section_class) ==
    /\ Has(tree, name)
    /\ (~HasHeader(cls, name) /\ cls.base = "None") =>
          Get(tree, name) = parse(section_class, cls, name, <<>>).ret
    /\ (~Truthy(cls.doc) /\ {cls.input, cls.output, cls.envs} = {None}) =>
          Get(tree, name) = ItemTerms(<<>>, Str(name), 0)

SectionsRule(cls, tree) ==
    /\ cls.kind = "Proc" =>
          \A i \in 1..Len(ProcSections) :
              SectionPresent(cls, tree, ProcSections[i].k, ProcSections[i].v)
    /\ (cls.kind = "object" /\ ~Truthy(cls.doc)) => tree = <<>>

----------------------------------------------------------------------------
(* SpecItems: the loop of _parse_terms(lines, None, 0, name) over the      *)
(* lines of an items section, one iteration at a time. inp is [_lines,     *)
(* lines]: the lines given and the dedented lines the loop runs over; out  *)
(* is [exc, st, ret]: the exception raised, the locals of the loop and     *)
(* what is returned; step is [pc, i]: where the call is and the number of  *)
(* lines the loop has processed.                                           *)

t_a == <<"a",":"," ","h">>
t_a_stop == <<"a",":"," ","h",".">>
t_b_attrs == <<"b"," ","(","x",":","1",";"," ","y",";"," ","z","=","2",")",":"," ","g">>
t_b_twice == <<"b"," ","(","x",":","1",";"," ","y",";"," ","x","=","2",")",":"," ","g">>
t_c_literal == <<"c",":"," ","|">>
t_more == <<" "," ","m","o","r","e">>
t_code == <<" "," ",">",">",">"," ","x">>
t_sub_c == <<" "," ","-"," ","c",":"," ","k">>
t_sub_f == <<" "," "," "," ","-"," ","f",":"," ","z">>
t_sub_text == <<" "," "," "," ","s","e","e",":"," ","y">>

\* Lines of an items section: headers whose help does and does not end a
\* sentence, with attributes, with an attribute given twice, with the
\* literal-block marker; a blank line; continuation lines that are text and
\* code; a bullet line, a bullet line one level deeper and a line of text
\* under a bullet that holds a colon
TermLines ==
    {t_a, t_a_stop, t_b_attrs, t_b_twice, t_c_literal, <<>>, t_more, t_code,
     t_sub_c, t_sub_f, t_sub_text}

\* the locals of _parse_terms before its loop, sections.py:261-268
Locals(name, level) ==
    [terms |-> ItemTerms(<<>>, name, level), sublines |-> <<>>, item |-> None,
     just_matched |-> FALSE, help_continuing |-> FALSE]

InitItems ==
    /\ SECTION_TYPES = SECTION_TYPES_0
    /\ heap = <<>>
    /\ marked = <<>>
    /\ \E l \in SeqsUpTo(TermLines, MaxLines) : inp = [_lines |-> l, lines |-> dedent(l)]
    /\ out = [exc |-> "", st |-> Locals(Str(s_Items), 0), ret |-> None]
    /\ step = [pc |-> "loop", i |-> 0]

\* one iteration of `for line in lines`, sections.py:269-346
Iterate ==
    /\ step.pc = "loop"
    /\ step.i < Len(inp.lines)
    /\ \E r \in {ParseTermsLoop(out.st, <<inp.lines[step.i + 1]>>, None, 0)} :
          /\ out' = [exc |-> r.exc, st |-> r.st, ret |-> None]
          /\ step' = [pc |-> IF r.exc = "" THEN "loop" ELSE "raised", i |-> step.i + 1]
    /\ UNCHANGED <<SECTION_TYPES, heap, marked, inp>>

\* after the loop: the sub-terms of the last item, and the return,
\* sections.py:348-352
Return ==
    /\ step.pc = "loop"
    /\ step.i = Len(inp.lines)
    /\ \E r \in {EndTerms([exc |-> "", st |-> out.st], 0)} :
          /\ out' = [exc |-> r.exc, st |-> out.st, ret |-> r.ret]
          /\ step' = [step EXCEPT !.pc = IF r.exc = "" THEN "returned" ELSE "raised"]
    /\ UNCHANGED <<SECTION_TYPES, heap, marked, inp>>

NextItems == Iterate \/ Return

SpecItems == InitItems /\ [][NextItems]_vars

----------------------------------------------------------------------------
(* Claims on the splitting of a docstring into sections (Spec) *)

\* the lines of the docstring of a class, each right-trimmed
StrippedDoc(cls) ==
    [i \in 1..Len(DocLines(cls.doc.s)) |-> rstrip(DocLines(cls.doc.s)[i])]

\* the line is a section header under the registry
IsHead(registry, line) ==
    /\ line # <<>>
    /\ line[Len(line)] = ":"
    /\ \/ Has(registry, Upto(line, Len(line) - 1))
       \/ is_section(Upto(line, Len(line) - 1))

\* the positions of the headers, and 0 for the initial section
Heads(registry, lines) ==
    {0} \cup {i \in 1..Len(lines) : IsHead(registry, lines[i])}

\* the name of the section opened at position i
HeadName(lines, i) ==
    IF i = 0 THEN s_Summary ELSE Upto(lines[i], Len(lines[i]) - 1)

\* the classifier of the section opened at position i
HeadClass(registry, cls, lines, i) ==
    IF i = 0 THEN "SectionSummary"
    ELSE IF ~Has(registry, HeadName(lines, i)) THEN "SectionText"
    ELSE IF HeadName(lines, i) = s_Args /\ cls.kind = "ProcGroup"
    THEN "SectionProcGroupArgs"
    ELSE Get(registry, HeadName(lines, i))

\* the lines after position i up to the next header or the end
HeadBody(registry, lines, i) ==
    LET later == {j \in Heads(registry, lines) : j > i}
        stop == IF later = {} THEN Len(lines) + 1
                ELSE CHOOSE j \in later : \A k \in later : j <= k
    IN  SubSeq(lines, i + 1, stop - 1)

\* no later section has the name of the section opened at position i
LastHead(registry, lines, i) ==
    \A j \in Heads(registry, lines) :
        j > i => HeadName(lines, j) # HeadName(lines, i)

\* the tree has, for every section the docstring opens, what the classifier
\* of the section parses from the lines of the section, and no section
\* that is neither opened by the docstring nor linked to the schema
SplitRule(registry, cls, lines, tree) ==
    /\ \A i \in Heads(registry, lines) :
          LastHead(registry, lines, i)
          => /\ Has(tree, HeadName(lines, i))
             /\ Get(tree, HeadName(lines, i)) =
                   parse(HeadClass(registry, cls, lines, i), cls,
                         HeadName(lines, i), HeadBody(registry, lines, i)).ret
    /\ KeySet(tree) \subseteq
          {HeadName(lines, i) : i \in Heads(registry, lines)}
          \cup KeySet(SchemaSections(cls))

\* annotate(c) parses the docstring of c and merges no base into the tree
ParsedAlone(c) ==
    /\ ~IsAnnotated(heap, marked, c) \/ ClassDef(c).kind \notin {"Proc", "ProcGroup"}
    /\ ClassDef(c).base = "None" \/ ~marked[c].inherit
    /\ Truthy(ClassDef(c).doc)

\* C21: the docstring is split into sections line by line on right-trimmed
\* lines, from an initial Summary section: a line ending in ':' opens a new
\* section exactly when the text before the colon is a registered section
\* name or is identifier-like once its internal spaces are removed; the
\* classifier is the one registered when the docstring is parsed (the
\* ProcGroup-args classifier for Args of a ProcGroup, generic text for an
\* unregistered name); every other line belongs to the open section, and
\* every section, the last one too, is parsed from exactly its lines.
C21_DocstringSplit ==
    [][\A c \in Classes :
          AnnotateStep(c) /\ ParsedAlone(c) /\ out'.exc = ""
          => SplitRule(SECTION_TYPES, ClassDef(c), StrippedDoc(ClassDef(c)),
                       Deref(heap', out'.ret).items)]_vars

\* C21's case: the docstring of the ProcGroup was split: its Args section
\* was parsed by the ProcGroup-args classifier from the line 'arg1:', which
\* ends in a colon and opens no section
C21_Witness ==
    /\ inp.op = "annotate" /\ inp.cls = "MyGroup" /\ out.exc = ""
    /\ HeadBody(SECTION_TYPES, StrippedDoc(ClassDef("MyGroup")), 3) =
          <<<<" "," "," "," ","a","r","g","1",":">>>>
    /\ Has(Deref(heap, out.ret).items, s_Args)
    /\ Get(Deref(heap, out.ret).items, s_Args) =
          parse("SectionProcGroupArgs", ClassDef("MyGroup"), s_Args,
                <<<<" "," "," "," ","a","r","g","1",":">>>>).ret
    /\ Has(Get(Deref(heap, out.ret).items, s_Args).items, s_arg1)

----------------------------------------------------------------------------
(* Claims on the loop of _parse_terms (SpecItems) *)

\* the line the next iteration processes
NextLine == inp.lines[step.i + 1]

\* the term that is open, in the locals st
OpenTerm(st) == Get(st.terms.items, st.item.s)

\* the next iteration processes a continuation line: a term is open, the
\* line is no header, it directly follows the header or a continuation line
\* and it does not start with the bullet marker
Continuation ==
    /\ step.pc = "loop" /\ step.i < Len(inp.lines)
    /\ out.st.item # None
    /\ out.st.just_matched
    /\ ~ITEM_LINE_REGEX_match(NextLine).ok
    /\ ~startswith(lstrip(NextLine), s_bullet)

\* the help so far calls for a newline before the continuation line
NewlineJoin(help, flag, cont) ==
    \/ help # <<>> /\ help[Len(help)] \in {".", "?", "!", ":"}
    \/ help # <<>> /\ startswith(splitlines(help)[Len(splitlines(help))], s_code)
    \/ startswith(cont, s_code)
    \/ flag

\* the help joined with the continuation line by the rule
Joined(help, flag, cont) ==
    help \o (IF NewlineJoin(help, flag, cont) THEN <<"\n">> ELSE <<" ">>) \o cont

\* C22 as stated: every continuation line is appended to the help with a
\* newline when the help ends in '.', '?', '!' or ':', when the last help
\* line or the continuation line starts with '>>>', or when the
\* literal-block flag is active, and with exactly one space otherwise.
C22_HelpJoined ==
    [][Continuation
       => OpenTerm(out'.st).help =
             Joined(OpenTerm(out.st).help, out.st.help_continuing,
                    lstrip(NextLine))]_vars

\* C22: a continuation line is appended to the help with a newline when the
\* help ends in '.', '?', '!' or ':', when the last help line or the
\* continuation line starts with '>>>', or when the literal-block flag is
\* active, and with exactly one space otherwise; except that, with the flag
\* active and the help still the marker '|', the continuation line replaces
\* the marker and becomes the help, with no separator.
C22_HelpJoinedOrMarkerReplaced ==
    [][Continuation
       => OpenTerm(out'.st).help =
             IF out.st.help_continuing /\ OpenTerm(out.st).help = <<"|">>
             THEN lstrip(NextLine)
             ELSE Joined(OpenTerm(out.st).help, out.st.help_continuing,
                         lstrip(NextLine))]_vars

\* C22's case: after the header 'c: |' two continuation lines were
\* processed: the first replaced the marker, the second was joined with a
\* newline
C22_Witness ==
    /\ step.pc = "loop" /\ step.i = 3
    /\ inp.lines = <<t_c_literal, t_more, t_more>>
    /\ out.st.item = Str(s_c)
    /\ OpenTerm(out.st).help = <<"m","o","r","e","\n","m","o","r","e">>

\* the line of a block is a term header: it matches ITEM_LINE_REGEX after
\* the first n characters, n the length of the prefix of the level
HeaderAt(block, i, n) == ITEM_LINE_REGEX_match(From(block[i], n + 1)).ok

\* the name of the header at line i
NameAt(block, i, n) == ITEM_LINE_REGEX_match(From(block[i], n + 1)).name

\* the last line of the term whose header is line i: the line before the
\* next header, or the last line of the block
TermEnd(block, i, n) ==
    LET later == {j \in (i + 1)..Len(block) : HeaderAt(block, j, n)}
    IN  IF later = {} THEN Len(block)
        ELSE (CHOOSE j \in later : \A k \in later : j <= k) - 1

\* the sub-lines of the term whose header is line i: its lines from the
\* first one that starts with the bullet marker
SubLines(block, i, n) ==
    LET bullets == {j \in (i + 1)..TermEnd(block, i, n) :
                       startswith(lstrip(block[j]), s_bullet)}
    IN  IF bullets = {} THEN <<>>
        ELSE SubSeq(block, CHOOSE j \in bullets : \A k \in bullets : j <= k,
                    TermEnd(block, i, n))

RECURSIVE Nested(_, _, _)
\* the terms are those of the headers of the dedented block, in source
\* order, and the children of each term are the terms nested in its
\* sub-lines, none when it has no sub-line
Nested(terms, block, n) ==
    /\ \A i \in 1..Len(block) :
          HeaderAt(block, i, n)
          => /\ Has(terms.items, NameAt(block, i, n))
             /\ (\A j \in (i + 1)..Len(block) :
                    HeaderAt(block, j, n) => NameAt(block, j, n) # NameAt(block, i, n))
                => /\ Nested(Get(terms.items, NameAt(block, i, n)).terms,
                             dedent(SubLines(block, i, n)), Len(s_bullet))
                   /\ SubLines(block, i, n) = <<>>
                      => Get(terms.items, NameAt(block, i, n)).terms.items = <<>>
             /\ \A j \in (i + 1)..Len(block) :
                    /\ HeaderAt(block, j, n)
                    /\ NameAt(block, j, n) # NameAt(block, i, n)
                    /\ \A k \in 1..(i - 1) :
                          HeaderAt(block, k, n) => NameAt(block, k, n) # NameAt(block, j, n)
                    => Idx(terms.items, NameAt(block, i, n)) <
                          Idx(terms.items, NameAt(block, j, n))
    /\ KeySet(terms.items) =
          {NameAt(block, i, n) : i \in {j \in 1..Len(block) : HeaderAt(block, j, n)}}

\* the next iteration processes a line that starts with the bullet marker
\* while a term is open
BulletLine ==
    /\ step.pc = "loop" /\ step.i < Len(inp.lines)
    /\ out.st.item # None
    /\ ~ITEM_LINE_REGEX_match(NextLine).ok
    /\ startswith(lstrip(NextLine), s_bullet)

\* C23: a line starting with the bullet marker '- ' after a term header is
\* deferred as a sub-line of the open term, whose children are parsed only
\* when the term closes; in the result every bullet line is a child of the
\* nearest preceding header one level shallower, to any depth, children are
\* in source order, and a term without sub-lines has no children.
C23_Nesting ==
    [][/\ BulletLine
          => /\ out'.st.sublines = Append(out.st.sublines, NextLine)
             /\ out'.st.terms = out.st.terms
             /\ OpenTerm(out.st).terms.items = <<>>
       /\ step'.pc = "returned" => Nested(out'.ret, inp.lines, 0)]_vars

\* C23's case: the parse of 'a: h', '  - c: k', '    - f: z' returned: a has
\* the child c and c has the child f
C23_Witness ==
    /\ step.pc = "returned"
    /\ inp.lines = <<t_a, t_sub_c, t_sub_f>>
    /\ Keys(out.ret.items) = <<s_a>>
    /\ Keys(Get(out.ret.items, s_a).terms.items) = <<s_c>>
    /\ Keys(Get(Get(out.ret.items, s_a).terms.items, s_c).terms.items) = <<s_f>>

\* the pieces of the parenthesized list of a header line, each stripped
AttrPieces(line) ==
    LET pieces == split(ITEM_LINE_REGEX_match(line).attrs.s, ";")
    IN  [i \in 1..Len(pieces) |-> strip(pieces[i])]

\* the position of the first ':' or '=' of a piece, 0 when it has none
PieceSep(piece) ==
    LET seps == {i \in 1..Len(piece) : piece[i] \in {":", "="}}
    IN  IF seps = {} THEN 0 ELSE CHOOSE i \in seps : \A j \in seps : i <= j

\* the attribute name of a piece
PieceName(piece) ==
    IF PieceSep(piece) = 0 THEN piece ELSE rstrip(Upto(piece, PieceSep(piece) - 1))

\* the attribute value of a piece: true for a bare name
PieceValue(piece) ==
    IF PieceSep(piece) = 0 THEN PyTrue
    ELSE Str(lstrip(From(piece, PieceSep(piece) + 1)))

\* the names of the pieces, each once, in order of first appearance
FirstAppearances(pieces) ==
    LET first(i) == \A j \in 1..(i - 1) : PieceName(pieces[j]) # PieceName(pieces[i])
        firsts == {i \in 1..Len(pieces) : first(i)}
        rank(i) == Cardinality({j \in firsts : j <= i})
    IN  [r \in 1..Cardinality(firsts) |->
            PieceName(pieces[CHOOSE i \in firsts : rank(i) = r])]

\* the next iteration processes a header line with a parenthesized list
AttrsHeader ==
    /\ step.pc = "loop" /\ step.i < Len(inp.lines)
    /\ ITEM_LINE_REGEX_match(NextLine).ok
    /\ ITEM_LINE_REGEX_match(NextLine).attrs # None

\* C24: the parenthesized list of a term header is split on ';', each piece
\* `name`, `name:value` or `name=value` yields one attribute whose value is
\* true for a bare name and the value string otherwise, and the recorded
\* declaration order lists each attribute name once, in order of first
\* appearance.
C24_AttrsInDeclarationOrder ==
    [][AttrsHeader /\ out'.exc = ""
       => LET pieces == AttrPieces(NextLine)
              attrs == OpenTerm(out'.st).attrs
          IN  /\ \A i \in 1..Len(pieces) :
                    /\ Has(attrs.items, PieceName(pieces[i]))
                    /\ (\A j \in (i + 1)..Len(pieces) :
                           PieceName(pieces[j]) # PieceName(pieces[i]))
                       => Get(attrs.items, PieceName(pieces[i])) = PieceValue(pieces[i])
              /\ Keys(attrs.items) = FirstAppearances(pieces)
              /\ attrs.meta.origin = FirstAppearances(pieces)]_vars

\* the iteration just taken left the term named k in place: it raised
\* nothing and its line was no header that creates a term named k
TermKept(k) ==
    /\ step.pc = "loop" /\ step.i < Len(inp.lines)
    /\ out'.exc = ""
    /\ Has(out.st.terms.items, k)
    /\ ~(ITEM_LINE_REGEX_match(NextLine).ok /\ ITEM_LINE_REGEX_match(NextLine).name = k)

\* the iteration replaces the marker of a literal block: the term named k is
\* open, its help is the marker '|' and the line continues it
MarkerReplaced(k) ==
    /\ Continuation
    /\ out.st.item = Str(k)
    /\ out.st.help_continuing
    /\ OpenTerm(out.st).help = <<"|">>

OpenHeaderHelp ==
    LET headers == {i \in 1..step.i : ITEM_LINE_REGEX_match(inp.lines[i]).ok}
        last == CHOOSE i \in headers : \A j \in headers : j <= i
    IN  MatchedHelp(ITEM_LINE_REGEX_match(inp.lines[last]))

\* C26: literal-block mode is scoped to the term that opened it: the
\* continuation lines of a term whose header help is '|' are joined with
\* newlines (the first one replacing the marker), and the continuation lines
\* of a term whose header help is not '|' are joined by the normal rule (one
\* space unless sentence end or code marker), whether or not an earlier term
\* of the block used '|'.
C26_LiteralBlockScoped ==
    [][Continuation
       => OpenTerm(out'.st).help =
             IF OpenHeaderHelp = <<"|">>
             THEN IF OpenTerm(out.st).help = <<"|">> THEN lstrip(NextLine)
                  ELSE OpenTerm(out.st).help \o <<"\n">> \o lstrip(NextLine)
             ELSE Joined(OpenTerm(out.st).help, FALSE, lstrip(NextLine))]_vars

RECURSIVE NestedNames(_)
\* the names of the terms below the terms of a level: their children, the
\* children of their children, and so on
NestedNames(terms) ==
    UNION {KeySet(terms.items[i].v.terms.items)
           \cup NestedNames(terms.items[i].v.terms) : i \in 1..Len(terms.items)}

\* the line, without its indentation, starts with the bullet marker and the
\* name token after the marker is n
BulletHeader(line, n) ==
    /\ startswith(lstrip(line), s_bullet)
    /\ ITEM_LINE_REGEX_match(From(lstrip(line), Len(s_bullet) + 1)).ok
    /\ ITEM_LINE_REGEX_match(From(lstrip(line), Len(s_bullet) + 1)).name = n

\* C27: at every nested level of _parse_terms (prefix '- ') a line opens a
\* term only if it starts with the bullet marker '- ', and the name of the
\* term is the name token that follows the marker: every term below the top
\* level of the returned tree is named by a bullet line of the input.
C27_NestedTermsFromBullets ==
    step.pc = "returned"
    => \A n \in NestedNames(out.ret) :
          \E i \in 1..Len(inp.lines) : BulletHeader(inp.lines[i], n)

----------------------------------------------------------------------------
(* Claims on the parse of Envs, Args and Output sections (SpecParse) *)

\* C29: SectionEnvs.parse and SectionProcGroupArgs.parse raise nothing when
\* the lines of the section are well formed, whatever the declared defaults
\* are: None, empty, or a mapping in which a term documented as a namespace
\* (ns, namespace, or action ns/namespace) has a default that is no mapping.
C29_EnvsParseNeverRaises ==
    (EnvsParsed /\ Documented.exc = "") => out.exc = ""

\* the entries name:type:default of a list-valued output declaration
TripleEntries(cls) ==
    IF IsList(cls.output)
    THEN {o \in Range(SchemaList(cls.output)) :
             isidentifier(split(o, ":")[1]) /\ Len(split(o, ":")) >= 3}
    ELSE {}

\* the text of the entry after its second colon
AfterSecondColon(o) == split1(split1(o, ":")[2], ":")[2]

\* C30: for an entry name:type:default that is one element of a list-valued
\* output declaration, the default attribute of the term is the whole text
\* after the second colon, further colons included.
C30_DefaultNotTruncated ==
    (Parsed /\ inp.section = "SectionOutput" /\ out.exc = "") =>
        \A o \in TripleEntries(inp.cls) :
            /\ Has(out.ret.items, split(o, ":")[1])
            /\ AttrIs(Get(out.ret.items, split(o, ":")[1]), s_default,
                      Str(AfterSecondColon(o)))

----------------------------------------------------------------------------
(* Claims on the merge rule of an inherited section (Spec) *)

\* the classifier kind whose parse returns the value: a summary, a mapping
\* of terms, or a text
ParsedBy(v) ==
    CASE v.type = "SummaryParsed" -> "SectionSummary"
      [] v.type = "ItemTerms" -> "SectionItems"
      [] OTHER -> "SectionText"

\* annotate(c) parses c and merges the tree into the tree of its base
MergedIntoBase(c) ==
    /\ AnnotateStep(c)
    /\ ~IsAnnotated(heap, marked, c)
    /\ ClassDef(c).base # "None" /\ marked[c].inherit
    /\ out'.exc = ""

\* C28: a section that the tree of the base and the tree of the derived
\* class both have, parsed by the same kind of classifier, is merged by the
\* merge rule of that kind, whatever register_section and unregister_section
\* calls were made before the merge: Summary field by field and item
\* sections term by term, also after their names were unregistered.
C28_MergeRuleOfParsingKind ==
    [][\A c \in Classes :
          MergedIntoBase(c)
          => LET base == Deref(heap', marked'[ClassDef(c).base].annotated).items
                 own == _annotate_uninherited(SECTION_TYPES, ClassDef(c)).ret
                 merged == Deref(heap', out'.ret).items
             IN  \A k \in KeySet(base) \cap KeySet(own) :
                    ParsedBy(Get(base, k)) = ParsedBy(Get(own, k))
                    => /\ Has(merged, k)
                       /\ Get(merged, k) =
                             update_parsed(ParsedBy(Get(own, k)),
                                           Get(base, k), Get(own, k)).ret]_vars

====
